---- MODULE Spec2Model ----
(***************************************************************************)
(* Enjaz: ingestion of weekly assessment-completion workbooks, per-cell    *)
(* eligibility and completion counting, band classification and rollup.    *)
(*                                                                         *)
(* Conventions of the model                                                *)
(*  - A completion rate is an integer number of hundredths of a percent    *)
(*    point (round(x, 2) in the code), so 90% is 9000 and 0.5% is 50.      *)
(*  - An optional value (None in the code) is the empty set, a present     *)
(*    value x is {x}.                                                      *)
(*  - A calendar date is a day number.                                     *)
(*  - Labels are spelled in Latin letters:                                 *)
(*      Platinum          "البلاتينية"                                      *)
(*      Gold              "الذهبية"                                         *)
(*      Silver            "الفضية"                                          *)
(*      Bronze            "البرونزية"                                       *)
(*      NeedsDevelopment  "يحتاج إلى تطوير"                                 *)
(*      NoBenefit         "لا يستفيد من النظام"                              *)
(*      NeedsImprovement  "يحتاج إلى تحسين"                                 *)
(*      NonBeneficiary    "غير مستفيد"                                      *)
(***************************************************************************)
EXTENDS Integers, Sequences, FiniteSets, TLC

VARIABLES
    pc,            \* position of the run: which operation acted last
    uploaded_files, \* the upload set given to aggregate_multiple_files / aggregate_lms_files
    workbook,      \* the uploaded file: a sequence of sheets (raw grids)
    parser,        \* which ingestion pass produced all_data
    today,         \* cutoff date handed to the ingestion pass
    start_date,    \* window start handed to parse_lms_excel (optional)
    all_data,      \* list of sheet dicts returned by the ingestion pass
    flt,           \* arguments <<start, end>> of the filter_by_date_range call
    filtered_data, \* list returned by filter_by_date_range
    student_stats, \* result of calculate_student_overall_stats
    kpis,          \* result of calculate_weekly_kpis
    sheet_idx,     \* which sheet of the batch calculate_class_stats was given
    class_stats,   \* result of calculate_class_stats
    name_column,   \* result of find_student_name_column (optional)
    start_column,  \* result of find_assessment_start_column (optional)
    rate,          \* argument of the band classifiers (optional rate)
    band,          \* result of analysis.get_band
    rec_band,      \* result of recommendations.get_band_from_percentage
    tier           \* result of analytics_export.get_tier

vars == <<pc, uploaded_files, workbook, parser, today, start_date, all_data, flt, filtered_data,
          student_stats, kpis, sheet_idx, class_stats, name_column,
          start_column, rate, band, rec_band, tier>>

classVars == <<sheet_idx, class_stats>>
columnVars == <<name_column, start_column>>
ingestVars ==
    <<uploaded_files, workbook, parser, today, start_date, all_data, flt, filtered_data,
      student_stats, kpis, classVars, columnVars>>
bandVars == <<rate, band, rec_band, tier>>

(***************************************************************************)
(* Optional values                                                         *)
(***************************************************************************)
None == {}
Some(x) == {x}
IsNone(o) == o = {}
Get(o) == CHOOSE x \in o : TRUE

(***************************************************************************)
(* Raw grid cells (pandas values read with header=None)                    *)
(***************************************************************************)
\* k: "nan" (empty cell), "str" (text), "num" (number), "date" (datetime);
\* s: what str(cell) gives; n: the number, or the day of a date cell
NaN == [k |-> "nan", s |-> "nan", n |-> 0]
Str(x) == [k |-> "str", s |-> x, n |-> 0]
Num(x, v) == [k |-> "num", s |-> x, n |-> v]
Date(d) == [k |-> "date", s |-> "date", n |-> d]
\* a text cell spelling the day d as month name and day ("Oct 31")
DateText(d) == [k |-> "str", s |-> "MonDay", n |-> d]

isna(c) == c.k = "nan"

\* str.strip() on the strings of the model
Strip(s) ==
    CASE s = " M " -> "M"
      [] s = " " -> ""
      [] s = " A " -> "A"
      [] OTHER -> s

\* str.upper() on the strings of the model
Upper(s) ==
    CASE s = "m" -> "M"
      [] s = "i" -> "I"
      [] s = "ab" -> "AB"
      [] s = "x" -> "X"
      [] s = "abc" -> "ABC"
      [] s = " m " -> " M "
      [] OTHER -> s

\* str.lower() on the header strings of the model
Lower(s) ==
    CASE s = "Student Name" -> "student name"
      [] s = "Overall" -> "overall"
      [] s = "OVERALL" -> "overall"
      [] s = "Notes" -> "notes"
      [] s = "Unnamed: 5" -> "unnamed: 5"
      [] s = "A1" -> "a1"
      [] s = "A2" -> "a2"
      [] s = "A3" -> "a3"
      [] s = "ID" -> "id"
      [] OTHER -> s

\* the marker substrings a string contains (case-sensitive `in`);
\* "ism" is the Arabic name marker, "ijmali"/"majmu" the Arabic totals,
\* "mulahazat" the Arabic notes marker
Markers(s) ==
    CASE s = "ism al-talib" -> {"ism"}
      [] s = "Student Name" -> {"Student"}
      [] s = "student name" -> {"student"}
      [] s = "Overall" -> {"Overall"}
      [] s = "overall" -> {"overall"}
      [] s = "Notes" -> {"Notes"}
      [] s = "notes" -> {"notes"}
      [] s = "Unnamed: 5" -> {"Unnamed"}
      [] s = "unnamed: 5" -> {"unnamed"}
      [] s = "ijmali" -> {"ijmali"}
      [] s = "al-majmu" -> {"majmu"}
      [] s = "mulahazat" -> {"mulahazat"}
      [] s = "nan" -> {"nan"}
      [] OTHER -> {}

\* df.iloc[r, c] with the code's 0-based indices
iloc(df, r, c) == df[r + 1][c + 1]
NRows(df) == Len(df)
NColumns(df) == IF Len(df) = 0 THEN 0 ELSE Len(df[1])

(***************************************************************************)
(* data_ingest: structural column locator                                  *)
(***************************************************************************)
RECURSIVE FirstNameColumn(_, _)
FirstNameColumn(df, idx) ==
    IF idx >= NColumns(df) THEN 0
    ELSE LET header == iloc(df, 0, idx).s IN
         IF "ism" \in Markers(header) \/ "Student" \in Markers(Lower(header))
         THEN idx
         ELSE FirstNameColumn(df, idx + 1)

find_student_name_column(df) == FirstNameColumn(df, 0)

Max(a, b) == IF a >= b THEN a ELSE b

\* index of column H, where assessments start by default
COLUMN_H == 7

\* the scan with every column taken into account, column H and after too
RECURSIVE AssessmentStartAnywhere(_, _, _)
AssessmentStartAnywhere(df, idx, start_col) ==
    IF idx >= NColumns(df) THEN start_col
    ELSE LET header == iloc(df, 0, idx).s IN
         IF Markers(header) \cap {"Overall", "overall", "ijmali", "majmu"} # {}
         THEN AssessmentStartAnywhere(df, idx + 1, Max(start_col, idx + 1))
         ELSE AssessmentStartAnywhere(df, idx + 1, start_col)

RECURSIVE AssessmentStart(_, _, _)
AssessmentStart(df, idx, start_col) ==
    IF idx >= NColumns(df) THEN start_col
    ELSE LET header == iloc(df, 0, idx).s IN
         IF idx < COLUMN_H
            /\ Markers(header) \cap {"Overall", "overall", "ijmali", "majmu"} # {}
         THEN AssessmentStart(df, idx + 1, Max(start_col, idx + 1))
         ELSE AssessmentStart(df, idx + 1, start_col)

find_assessment_start_column(df) == AssessmentStart(df, 0, COLUMN_H)

\* the keyword test on the header as written, not lowered
is_excluded_column_cased(header) ==
    Markers(header.s)
        \cap {"overall", "unnamed", "notes", "mulahazat", "ijmali", "majmu", "nan"} # {}

is_excluded_column(header) ==
    Markers(Lower(header.s))
        \cap {"overall", "unnamed", "notes", "mulahazat", "ijmali", "majmu", "nan"} # {}

(***************************************************************************)
(* Due dates                                                               *)
(***************************************************************************)
\* data_ingest.parse_due_date: a date object, or None
parse_due_date(value) ==
    IF isna(value) THEN None
    ELSE IF value.k = "date" THEN Some(value.n)
    ELSE IF value.k = "str" /\ value.s = "MonDay" THEN Some(value.n)
    ELSE None

\* data_ingest_lms.parse_lms_date: a date object, or None
parse_lms_date(date_str) ==
    IF isna(date_str) \/ date_str.s = "-" \/ Strip(date_str.s) = "" THEN None
    ELSE IF date_str.k = "str" /\ date_str.s = "MonDay" THEN Some(date_str.n)
    ELSE IF date_str.k = "date" THEN Some(date_str.n)
    ELSE None

\* normalize_arabic_text: '' for an empty cell, else trimmed text
normalize_arabic_text(text) == IF isna(text) THEN "" ELSE Strip(text.s)

\* round(100 * completed / total_due, 2) in hundredths, ties to even
Round2(completed, total_due) ==
    LET num == 10000 * completed
        q == num \div total_due
        r == num % total_due
    IN  IF 2 * r > total_due THEN q + 1
        ELSE IF 2 * r < total_due THEN q
        ELSE IF q % 2 = 0 THEN q ELSE q + 1

(***************************************************************************)
(* data_ingest.parse_excel_file                                            *)
(***************************************************************************)
SENTINELS == {"M", "I", "AB", "X"}

\* assessment_columns of parse_excel_file: list of [col_idx, title, due_date]
RECURSIVE ExcelAssessmentColumns(_, _)
ExcelAssessmentColumns(df, col_idx) ==
    IF col_idx >= NColumns(df) THEN <<>>
    ELSE LET header == iloc(df, 0, col_idx) IN
         IF is_excluded_column(header)
         THEN ExcelAssessmentColumns(df, col_idx + 1)
         ELSE <<[col_idx |-> col_idx,
                 title |-> header.s,
                 due_date |-> parse_due_date(iloc(df, 2, col_idx))]>>
              \o ExcelAssessmentColumns(df, col_idx + 1)

\* the eligibility test with the cutoff day itself left out
ExcelEligibleStrict(due_date, cutoff) ==
    ~IsNone(due_date) /\ Get(due_date) < cutoff

\* the eligibility test of parse_excel_file: due_date <= today
ExcelEligible(due_date, cutoff) ==
    ~(IsNone(due_date) \/ Get(due_date) > cutoff)

\* one pass of the loop over assessment_columns for one student row;
\* acc = [total_due, completed, not_submitted, assessments]
ExcelCell(acc, assessment, cell_value, cutoff) ==
    IF ~ExcelEligible(assessment.due_date, cutoff) THEN acc
    ELSE IF isna(cell_value)
    THEN [acc EXCEPT !.total_due = @ + 1, !.not_submitted = @ + 1]
    ELSE LET value_str == Upper(Strip(cell_value.s))
             detail == [title |-> assessment.title,
                        due_date |-> [kind |-> "date", d |-> Get(assessment.due_date)],
                        value |-> cell_value]
         IN  IF value_str \in SENTINELS
             THEN [acc EXCEPT !.total_due = @ + 1,
                              !.not_submitted = @ + 1,
                              !.assessments = Append(@, detail)]
             ELSE [acc EXCEPT !.total_due = @ + 1,
                              !.completed = @ + 1,
                              !.assessments = Append(@, detail)]

ZeroCounts ==
    [total_due |-> 0, completed |-> 0, not_submitted |-> 0, assessments |-> <<>>]

RECURSIVE ExcelCount(_, _, _, _, _, _)
ExcelCount(df, row_idx, cols, i, cutoff, acc) ==
    IF i > Len(cols) THEN acc
    ELSE ExcelCount(df, row_idx, cols, i + 1, cutoff,
                    ExcelCell(acc, cols[i], iloc(df, row_idx, cols[i].col_idx), cutoff))

\* the student dict with has_due taken from the completed count
StudentRecordByCompleted(student_name, acc) ==
    LET has_due == acc.completed > 0 IN
    [student_name |-> student_name,
     total_due |-> acc.total_due,
     completed |-> acc.completed,
     not_submitted |-> acc.not_submitted,
     completion_rate |-> IF has_due THEN Round2(acc.completed, acc.total_due) ELSE 0,
     has_due |-> has_due,
     assessments |-> acc.assessments]

\* the student dict built at the end of the row loop (both parsers)
StudentRecord(student_name, acc) ==
    LET has_due == acc.total_due > 0 IN
    [student_name |-> student_name,
     total_due |-> acc.total_due,
     completed |-> acc.completed,
     not_submitted |-> acc.not_submitted,
     completion_rate |-> IF has_due THEN Round2(acc.completed, acc.total_due) ELSE 0,
     has_due |-> has_due,
     assessments |-> acc.assessments]

RECURSIVE ExcelStudents(_, _, _, _, _)
ExcelStudents(df, row_idx, student_col, cols, cutoff) ==
    IF row_idx >= NRows(df) THEN <<>>
    ELSE LET student_name == normalize_arabic_text(iloc(df, row_idx, student_col)) IN
         IF student_name = ""
         THEN ExcelStudents(df, row_idx + 1, student_col, cols, cutoff)
         ELSE <<StudentRecord(student_name,
                              ExcelCount(df, row_idx, cols, 1, cutoff, ZeroCounts))>>
              \o ExcelStudents(df, row_idx + 1, student_col, cols, cutoff)

\* the body of the per-sheet loop: <<>> when the sheet is skipped, else
\* a one-element list with the sheet dict
\* one pass of the sheet loop: the sheet dict, or nothing when reading the
\* sheet raises (the except clause) or the sheet is skipped
ExcelSheet(sheet, cutoff) ==
    LET df == sheet.df IN
    IF sheet.read_raises THEN <<>>
    ELSE IF NRows(df) < 4 THEN <<>>
    ELSE LET student_col == find_student_name_column(df)
             assessment_start == find_assessment_start_column(df)
             cols == ExcelAssessmentColumns(df, assessment_start)
             students == ExcelStudents(df, 3, student_col, cols, cutoff)
         IN  IF students = <<>> THEN <<>>
             ELSE <<[sheet_name |-> sheet.sheet_name, students |-> students]>>

RECURSIVE parse_excel_file(_, _, _)
parse_excel_file(wb, i, cutoff) ==
    IF i > Len(wb) THEN <<>>
    ELSE ExcelSheet(wb[i], cutoff) \o parse_excel_file(wb, i + 1, cutoff)

(***************************************************************************)
(* data_ingest_lms.parse_lms_excel                                         *)
(***************************************************************************)
\* str.isdigit(), str.startswith('0'), p[1:] and int(p) on the tokens of the
\* model
isdigit(p) == p \in {"0", "1", "2", "3", "4", "9", "03", "04", "10", "12"}
StartsWithZero(p) == p \in {"0", "03", "04"}
Rest(p) ==
    CASE p = "0" -> "" [] p = "1" -> "" [] p = "2" -> "" [] p = "3" -> ""
      [] p = "4" -> "" [] p = "9" -> ""
      [] p = "03" -> "3" [] p = "04" -> "4" [] p = "10" -> "0" [] p = "12" -> "2"
      [] OTHER -> p
IntOf(p) ==
    CASE p = "0" -> 0 [] p = "1" -> 1 [] p = "2" -> 2 [] p = "3" -> 3
      [] p = "4" -> 4 [] p = "9" -> 9
      [] p = "03" -> 3 [] p = "04" -> 4 [] p = "10" -> 10 [] p = "12" -> 12
\* str(n)
IntText(n) ==
    CASE n = 0 -> "0" [] n = 1 -> "1" [] n = 2 -> "2" [] n = 3 -> "3"
      [] n = 4 -> "4" [] n = 9 -> "9" [] n = 10 -> "10" [] n = 12 -> "12"

\* p.isdigit() or (p.startswith('0') and p[1:].isdigit())
IsNumberToken(p) == isdigit(p) \/ (StartsWithZero(p) /\ isdigit(Rest(p)))

\* the grade test of the two-number formats: leading zero, or above 9
LooksLikeGrade(first_num) ==
    StartsWithZero(first_num) \/ (isdigit(first_num) /\ IntOf(first_num) > 9)

\* defaults of the sheet identity; "ghayr muhaddad" is the Arabic
\* 'unspecified'. A joined string is held as its tokens in order.
DefaultIdentity(parts) ==
    [subject |-> parts, class_name |-> "ghayr muhaddad",
     section |-> "ghayr muhaddad", class_code |-> <<"N/A">>]

\* subject, class_name, section and class_code from the tokens of the name
SheetIdentity(parts) ==
    LET n == Len(parts)
        default == DefaultIdentity(parts)
    IN  IF n >= 3
        THEN IF IsNumberToken(parts[1])
             THEN IF isdigit(parts[n])
                  THEN [subject |-> SubSeq(parts, 2, n - 1),
                        class_name |-> parts[1],
                        section |-> parts[n],
                        class_code |-> <<parts[1], parts[n]>>]
                  ELSE [default EXCEPT !.subject = SubSeq(parts, 2, n),
                                       !.class_name = parts[1],
                                       !.class_code = <<parts[1]>>]
             ELSE LET first_num == parts[n - 1]
                      second_num == parts[n]
                  IN  IF IsNumberToken(first_num) /\ IsNumberToken(second_num)
                      THEN LET grade_first == LooksLikeGrade(first_num)
                               class_name == IF grade_first THEN first_num ELSE second_num
                               section == IF grade_first THEN second_num ELSE first_num
                           IN  [subject |-> SubSeq(parts, 1, n - 2),
                                class_name |-> class_name,
                                section |-> section,
                                class_code |-> <<class_name, section>>]
                      ELSE default
        ELSE IF n = 2
        THEN IF IsNumberToken(parts[1])
             THEN [default EXCEPT !.class_name = parts[1],
                                  !.subject = <<parts[2]>>,
                                  !.class_code = <<parts[1]>>]
             ELSE IF IsNumberToken(parts[2])
             THEN [default EXCEPT !.subject = <<parts[1]>>,
                                  !.class_name = parts[2],
                                  !.class_code = <<parts[2]>>]
             ELSE default
        ELSE default

\* str(int(class_name)) if class_name.isdigit() else class_name
NormalizedGrade(class_name) ==
    IF isdigit(class_name) THEN IntText(IntOf(class_name)) ELSE class_name

\* the sheet dict parse_lms_excel appends
LmsSheetData(sheet_name, students) ==
    LET id == SheetIdentity(sheet_name) IN
    [sheet_name |-> sheet_name,
     subject |-> id.subject,
     class_name |-> id.class_name,
     section |-> id.section,
     grade |-> NormalizedGrade(id.class_name),
     class_code |-> id.class_code,
     students |-> students]

RECURSIVE LmsAssessmentColumns(_, _)
LmsAssessmentColumns(df, col_idx) ==
    IF col_idx >= NColumns(df) THEN <<>>
    ELSE LET header == iloc(df, 0, col_idx) IN
         IF isna(header) \/ Strip(header.s) = ""
         THEN LmsAssessmentColumns(df, col_idx + 1)
         ELSE <<[col_idx |-> col_idx,
                 title |-> Strip(header.s),
                 due_date |-> parse_lms_date(iloc(df, 2, col_idx))]>>
              \o LmsAssessmentColumns(df, col_idx + 1)

LmsEligible(due_date, cutoff, start) ==
    /\ ~(IsNone(due_date) \/ Get(due_date) > cutoff)
    /\ ~(~IsNone(start) /\ Get(due_date) < Get(start))

\* float(cell_value) succeeds
IsFloat(cell_value) == cell_value.k = "num"

LmsStatus(cell_value) ==
    IF isna(cell_value) \/ Strip(cell_value.s) \in {"", "-"} THEN "empty"
    ELSE IF Upper(cell_value.s) \in SENTINELS THEN Upper(cell_value.s)
    ELSE IF IsFloat(cell_value) /\ 0 <= cell_value.n /\ cell_value.n <= 100
    THEN "completed"
    ELSE "invalid"

LmsCell(acc, assessment, cell_value, cutoff, start) ==
    IF ~LmsEligible(assessment.due_date, cutoff, start) THEN acc
    ELSE LET status == LmsStatus(cell_value)
             detail == [title |-> assessment.title,
                        due_date |-> [kind |-> "str", d |-> Get(assessment.due_date)],
                        value |-> IF isna(cell_value) THEN Str("") ELSE Str(cell_value.s),
                        status |-> status]
         IN  [total_due |-> acc.total_due + 1,
              completed |-> acc.completed + (IF status = "completed" THEN 1 ELSE 0),
              not_submitted |-> acc.not_submitted + (IF status \in SENTINELS THEN 1 ELSE 0),
              assessments |-> Append(acc.assessments, detail)]

RECURSIVE LmsCount(_, _, _, _, _, _, _)
LmsCount(df, row_idx, cols, i, cutoff, start, acc) ==
    IF i > Len(cols) THEN acc
    ELSE LmsCount(df, row_idx, cols, i + 1, cutoff, start,
                  LmsCell(acc, cols[i], iloc(df, row_idx, cols[i].col_idx), cutoff, start))

RECURSIVE LmsStudents(_, _, _, _, _)
LmsStudents(df, row_idx, cols, cutoff, start) ==
    IF row_idx >= NRows(df) THEN <<>>
    ELSE LET student_name == normalize_arabic_text(iloc(df, row_idx, 0)) IN
         IF student_name = "" \/ student_name = "Students"
         THEN LmsStudents(df, row_idx + 1, cols, cutoff, start)
         ELSE <<StudentRecord(student_name,
                              LmsCount(df, row_idx, cols, 1, cutoff, start, ZeroCounts))>>
              \o LmsStudents(df, row_idx + 1, cols, cutoff, start)

\* the sheet loop taking the rows from the fourth on (index 3) and asking
\* for four rows
LmsSheetFromFourthRow(sheet, cutoff, start) ==
    LET df == sheet.df IN
    IF sheet.read_raises THEN <<>>
    ELSE IF NRows(df) < 4 THEN <<>>
    ELSE LET cols == LmsAssessmentColumns(df, COLUMN_H)
             students == LmsStudents(df, 3, cols, cutoff, start)
         IN  IF students = <<>> THEN <<>>
             ELSE <<LmsSheetData(sheet.sheet_name, students)>>

LmsSheet(sheet, cutoff, start) ==
    LET df == sheet.df IN
    IF sheet.read_raises THEN <<>>
    ELSE IF NRows(df) < 5 THEN <<>>
    ELSE LET cols == LmsAssessmentColumns(df, COLUMN_H)
             students == LmsStudents(df, 4, cols, cutoff, start)
         IN  IF students = <<>> THEN <<>>
             ELSE <<LmsSheetData(sheet.sheet_name, students)>>

RECURSIVE parse_lms_excel(_, _, _, _)
parse_lms_excel(wb, i, cutoff, start) ==
    IF i > Len(wb) THEN <<>>
    ELSE LmsSheet(wb[i], cutoff, start) \o parse_lms_excel(wb, i + 1, cutoff, start)

(***************************************************************************)
(* Upload sets: aggregate_multiple_files, aggregate_lms_files              *)
(***************************************************************************)
\* the outer except clause taken over the whole file as soon as one sheet
\* fails to read
ParseExcelUploadAllOrNothing(file, cutoff) ==
    IF file.unreadable
       \/ \E k \in 1..Len(file.sheets) : file.sheets[k].read_raises
    THEN <<>>
    ELSE parse_excel_file(file.sheets, 1, cutoff)

\* an uploaded file is [unreadable, sheets]: pd.ExcelFile raises on an
\* unreadable file and the outer except clause returns []
ParseExcelUpload(file, cutoff) ==
    IF file.unreadable THEN <<>> ELSE parse_excel_file(file.sheets, 1, cutoff)

RECURSIVE aggregate_multiple_files(_, _, _)
aggregate_multiple_files(files, idx, cutoff) ==
    IF idx > Len(files) THEN <<>>
    ELSE ParseExcelUpload(files[idx], cutoff)
            \o aggregate_multiple_files(files, idx + 1, cutoff)

ParseLmsUpload(file, cutoff, start) ==
    IF file.unreadable THEN <<>> ELSE parse_lms_excel(file.sheets, 1, cutoff, start)

RECURSIVE LmsFiles(_, _, _, _)
LmsFiles(files, idx, filter_date, start) ==
    IF idx > Len(files) THEN <<>>
    ELSE ParseLmsUpload(files[idx], filter_date, start)
            \o LmsFiles(files, idx + 1, filter_date, start)

\* end is the optional end_date; cutoff stands for today
aggregate_lms_files(files, cutoff, start, end) ==
    LET filter_date == IF ~IsNone(end) THEN Get(end) ELSE cutoff IN
    LmsFiles(files, 1, filter_date, start)

(***************************************************************************)
(* date_filter.filter_by_date_range                                        *)
(***************************************************************************)
\* `due_date < start_date` / `due_date > end_date` between a str (the
\* isoformat text parse_lms_excel stores) and a date raises TypeError
CompareRaises(assessment, start, end) ==
    assessment.due_date.kind = "str" /\ (~IsNone(start) \/ ~IsNone(end))

InRange(assessment, start, end) ==
    /\ ~(~IsNone(start) /\ assessment.due_date.d < Get(start))
    /\ ~(~IsNone(end) /\ assessment.due_date.d > Get(end))

\* the recount with the I/AB/X decrement applied to a cell never counted
FilterCellUncounted(acc, assessment, start, end) ==
    IF ~InRange(assessment, start, end) THEN acc
    ELSE IF isna(assessment.value)
    THEN [acc EXCEPT !.total_due = @ + 1, !.not_submitted = @ + 1]
    ELSE LET value_str == Upper(Strip(assessment.value.s)) IN
         IF value_str = "M"
         THEN [acc EXCEPT !.total_due = @ + 1, !.not_submitted = @ + 1]
         ELSE IF value_str \in {"I", "AB", "X"}
         THEN [acc EXCEPT !.total_due = @ - 1]
         ELSE [acc EXCEPT !.total_due = @ + 1, !.completed = @ + 1]

\* one pass of the recount loop; acc = [total_due, completed, not_submitted]
FilterCell(acc, assessment, start, end) ==
    IF ~InRange(assessment, start, end) THEN acc
    ELSE IF isna(assessment.value)
    THEN [acc EXCEPT !.total_due = @ + 1, !.not_submitted = @ + 1]
    ELSE LET value_str == Upper(Strip(assessment.value.s)) IN
         IF value_str = "M"
         THEN [acc EXCEPT !.total_due = @ + 1, !.not_submitted = @ + 1]
         ELSE IF value_str \in {"I", "AB", "X"}
         THEN acc
         ELSE [acc EXCEPT !.total_due = @ + 1, !.completed = @ + 1]

RECURSIVE FilterCount(_, _, _, _, _)
FilterCount(assessments, i, start, end, acc) ==
    IF i > Len(assessments) THEN acc
    ELSE FilterCount(assessments, i + 1, start, end,
                     FilterCell(acc, assessments[i], start, end))

\* a recount that also drops the out-of-range details from the stored list
FilterStudentKeepingInRange(student, start, end) ==
    IF student.assessments = <<>> THEN student
    ELSE LET acc == FilterCount(student.assessments, 1, start, end,
                                [total_due |-> 0, completed |-> 0, not_submitted |-> 0])
             has_due == acc.total_due > 0
             Kept(assessment) == InRange(assessment, start, end)
         IN  [student EXCEPT
                 !.assessments = SelectSeq(@, Kept),
                 !.total_due = acc.total_due,
                 !.completed = acc.completed,
                 !.not_submitted = acc.not_submitted,
                 !.completion_rate =
                     IF has_due THEN Round2(acc.completed, acc.total_due) ELSE 0,
                 !.has_due = has_due]

FilterStudent(student, start, end) ==
    IF student.assessments = <<>> THEN student
    ELSE LET acc == FilterCount(student.assessments, 1, start, end,
                                [total_due |-> 0, completed |-> 0, not_submitted |-> 0])
             has_due == acc.total_due > 0
         IN  [student EXCEPT
                 !.total_due = acc.total_due,
                 !.completed = acc.completed,
                 !.not_submitted = acc.not_submitted,
                 !.completion_rate =
                     IF has_due THEN Round2(acc.completed, acc.total_due) ELSE 0,
                 !.has_due = has_due]

FilterSheet(sheet_data, start, end) ==
    [sheet_data EXCEPT
        !.students = [j \in 1..Len(sheet_data.students) |->
                         FilterStudent(sheet_data.students[j], start, end)]]

filter_by_date_range(data, start, end) ==
    [i \in 1..Len(data) |-> FilterSheet(data[i], start, end)]

\* the call raises instead of returning
FilterRaises(data, start, end) ==
    \E i \in 1..Len(data) : \E j \in 1..Len(data[i].students) :
        \E a \in 1..Len(data[i].students[j].assessments) :
            CompareRaises(data[i].students[j].assessments[a], start, end)

(***************************************************************************)
(* Band classification                                                     *)
(***************************************************************************)
\* 100.00 percent in hundredths
FullRate == 10000

Rates == 0..FullRate

NotCalled == "NotCalled"

BAND_LABELS ==
    <<"Platinum", "Gold", "Silver", "Bronze", "NeedsDevelopment", "NoBenefit">>

\* the tiers TestBanding.test_band_thresholds expects (90/75/60/40/>0/0)
TestSuiteBand(completion_rate) ==
    IF IsNone(completion_rate) THEN "N/A"
    ELSE LET r == Get(completion_rate) IN
         IF r >= 9000 THEN "Platinum"
         ELSE IF r >= 7500 THEN "Gold"
         ELSE IF r >= 6000 THEN "Silver"
         ELSE IF r >= 4000 THEN "Bronze"
         ELSE IF r > 0 THEN "NeedsDevelopment"
         ELSE "NoBenefit"

\* get_band with the gold threshold exclusive (> 80 instead of >= 80)
get_band_exclusive(completion_rate) ==
    IF IsNone(completion_rate) THEN "N/A"
    ELSE LET r == Get(completion_rate) IN
         IF r >= 9000 THEN "Platinum"
         ELSE IF r > 8000 THEN "Gold"
         ELSE IF r >= 7000 THEN "Silver"
         ELSE IF r >= 5000 THEN "Bronze"
         ELSE IF r >= 100 THEN "NeedsDevelopment"
         ELSE "NoBenefit"

get_band(completion_rate) ==
    IF IsNone(completion_rate) THEN "N/A"
    ELSE LET r == Get(completion_rate) IN
         IF r >= 9000 THEN "Platinum"
         ELSE IF r >= 8000 THEN "Gold"
         ELSE IF r >= 7000 THEN "Silver"
         ELSE IF r >= 5000 THEN "Bronze"
         ELSE IF r >= 100 THEN "NeedsDevelopment"
         ELSE "NoBenefit"

get_band_from_percentage(percentage) ==
    IF IsNone(percentage) THEN "N/A"
    ELSE LET r == Get(percentage) IN
         IF r >= 9000 THEN "Platinum"
         ELSE IF r >= 7500 THEN "Gold"
         ELSE IF r >= 6000 THEN "Silver"
         ELSE IF r >= 4000 THEN "Bronze"
         ELSE IF r > 0 THEN "NeedsImprovement"
         ELSE "NonBeneficiary"

\* get_tier has no None branch: None >= 90 raises TypeError
get_tier(overall_pct) ==
    IF IsNone(overall_pct) THEN "TypeError"
    ELSE LET r == Get(overall_pct) IN
         IF r >= 9000 THEN "TierPlatinum"
         ELSE IF r >= 8000 THEN "TierGold"
         ELSE IF r >= 7000 THEN "TierSilver"
         ELSE IF r >= 5000 THEN "TierBronze"
         ELSE IF r >= 100 THEN "TierNeedsDevelopment"
         ELSE "TierNoBenefit"

\* ordinal position (1 = highest tier .. 6 = lowest) of a label in the label
\* list of the classifier that returned it; 0 for a value that is no tier
Ordinal(label) ==
    CASE label \in {"Platinum", "TierPlatinum"} -> 1
      [] label \in {"Gold", "TierGold"} -> 2
      [] label \in {"Silver", "TierSilver"} -> 3
      [] label \in {"Bronze", "TierBronze"} -> 4
      [] label \in {"NeedsDevelopment", "NeedsImprovement", "TierNeedsDevelopment"} -> 5
      [] label \in {"NoBenefit", "NonBeneficiary", "TierNoBenefit"} -> 6
      [] OTHER -> 0

InBandLabels(label) == \E i \in 1..Len(BAND_LABELS) : BAND_LABELS[i] = label

(***************************************************************************)
(* analysis: rollup                                                        *)
(***************************************************************************)
RECURSIVE MaxRowsOf(_)
MaxRowsOf(data) ==
    IF data = <<>> THEN 0
    ELSE Max(Len(Head(data).students), MaxRowsOf(Tail(data)))

\* valid_students with the has_due test left out
AllStudents(sheet_data) == sheet_data.students

\* the has_due=True records of one sheet, in row order
ValidStudents(sheet_data) ==
    SelectSeq(sheet_data.students, LAMBDA st : st.has_due)

\* every (sheet index, row index) of a has_due=True record of the batch
ValidRefs(data) ==
    {<<i, j>> \in (1..Len(data)) \X (1..MaxRowsOf(data)) :
        j <= Len(data[i].students) /\ data[i].students[j].has_due}

RECURSIVE SumSeq(_)
SumSeq(q) == IF q = <<>> THEN 0 ELSE Head(q) + SumSeq(Tail(q))

Count(q, x) == Cardinality({j \in 1..Len(q) : q[j] = x})

\* the side round(np.mean(rates), 2) takes when the decimal mean of the rates
\* lies halfway between two hundredths. The rates are binary doubles and
\* np.mean adds them from left to right: 33.33 is stored below and 66.67
\* above its decimal value, so the sum falls on the side of the more frequent
\* of the two, except that 66.67 + 66.67 + 66.67 + 33.33 rounds to
\* 233.33999999999997 while every other order of the same four rates gives
\* 233.34000000000003. Holds of every sequence of up to five rates among
\* 0, 33.33, 66.67 and 100.
TieRoundsUp(rates) ==
    /\ Count(rates, 6667) > Count(rates, 3333)
    /\ rates # <<6667, 6667, 6667, 3333>>

\* round(np.mean(rates), 2) in hundredths
RoundMean(rates) ==
    LET total == SumSeq(rates)
        n == Len(rates)
        q == total \div n
        r == total % n
    IN  IF 2 * r > n THEN q + 1
        ELSE IF 2 * r < n THEN q
        ELSE IF TieRoundsUp(rates) THEN q + 1 ELSE q

\* the per-subject entries of one student, in sheet then row order
RECURSIVE SubjectsOf(_, _, _)
SubjectsOf(data, name, i) ==
    IF i > Len(data) THEN <<>>
    ELSE LET mine == SelectSeq(ValidStudents(data[i]),
                               LAMBDA st : st.student_name = name)
         IN  [j \in 1..Len(mine) |->
                 [subject |-> data[i].sheet_name,
                  completion_rate |-> mine[j].completion_rate,
                  band |-> get_band(Some(mine[j].completion_rate)),
                  total_due |-> mine[j].total_due,
                  completed |-> mine[j].completed]]
             \o SubjectsOf(data, name, i + 1)

\* the keys of student_stats with the has_due test left out
AllNames(data) ==
    {data[i].students[j].student_name :
        <<i, j>> \in {ij \in (1..Len(data)) \X (1..MaxRowsOf(data)) :
                         ij[2] <= Len(data[ij[1]].students)}}

ValidNames(data) ==
    {data[ij[1]].students[ij[2]].student_name : ij \in ValidRefs(data)}

calculate_student_overall_stats(data) ==
    [name \in ValidNames(data) |->
        LET subs == SubjectsOf(data, name, 1)
            total_due == SumSeq([k \in 1..Len(subs) |-> subs[k].total_due])
            total_completed == SumSeq([k \in 1..Len(subs) |-> subs[k].completed])
        IN  [total_due |-> total_due,
             total_completed |-> total_completed,
             subjects |-> [k \in 1..Len(subs) |->
                              [subject |-> subs[k].subject,
                               completion_rate |-> subs[k].completion_rate,
                               band |-> subs[k].band]],
             overall_completion_rate |->
                 IF total_due > 0 THEN Round2(total_completed, total_due) ELSE 0,
             overall_band |->
                 IF total_due > 0
                 THEN get_band(Some(Round2(total_completed, total_due)))
                 ELSE "N/A"]]

\* average_completion of calculate_class_stats: round(np.mean(rates), 2)
average_completion(sheet_data) ==
    LET valid == ValidStudents(sheet_data) IN
    IF valid = <<>> THEN 0
    ELSE RoundMean([j \in 1..Len(valid) |-> valid[j].completion_rate])

\* sorted(items, key=average, reverse=True): stable, descending
RECURSIVE InsertDesc(_, _)
InsertDesc(sorted, x) ==
    IF sorted = <<>> THEN <<x>>
    ELSE IF Head(sorted).average >= x.average
    THEN <<Head(sorted)>> \o InsertDesc(Tail(sorted), x)
    ELSE <<x>> \o sorted

RECURSIVE SortedDesc(_, _, _)
SortedDesc(items, i, acc) ==
    IF i > Len(items) THEN acc
    ELSE SortedDesc(items, i + 1, InsertDesc(acc, items[i]))

\* sorted(valid_students, key=completion_rate, reverse=True): stable, descending
RECURSIVE InsertByRate(_, _)
InsertByRate(sorted, x) ==
    IF sorted = <<>> THEN <<x>>
    ELSE IF Head(sorted).completion_rate >= x.completion_rate
    THEN <<Head(sorted)>> \o InsertByRate(Tail(sorted), x)
    ELSE <<x>> \o sorted

RECURSIVE SortedByRate(_, _, _)
SortedByRate(items, i, acc) ==
    IF i > Len(items) THEN acc
    ELSE SortedByRate(items, i + 1, InsertByRate(acc, items[i]))

\* the slices [:10] of the two student lists
LIST_CAP == 10

\* 90 and 60 percent in hundredths
TOP_RATE == 9000
ATTENTION_RATE == 6000

Cap(q) == SubSeq(q, 1, IF Len(q) < LIST_CAP THEN Len(q) ELSE LIST_CAP)

\* top_performers with the mark itself left out (> 90)
TopPerformersAbove(sorted_students) ==
    SelectSeq(sorted_students, LAMBDA st : st.completion_rate > TOP_RATE)

\* top_performers of calculate_class_stats, before the slice
TopPerformers(sorted_students) ==
    SelectSeq(sorted_students, LAMBDA st : st.completion_rate >= TOP_RATE)

\* needs_attention listed from the lowest rate up
NeedsAttentionLowestFirst(sorted_students) ==
    LET low == SelectSeq(sorted_students,
                         LAMBDA st : st.completion_rate < ATTENTION_RATE)
    IN  [k \in 1..Len(low) |-> low[Len(low) + 1 - k]]

\* needs_attention of calculate_class_stats, before the slice
NeedsAttention(sorted_students) ==
    SelectSeq(sorted_students, LAMBDA st : st.completion_rate < ATTENTION_RATE)

\* band_distribution of calculate_class_stats
ClassBandDistribution(valid_students) ==
    LET bandOf(j) == get_band(Some(valid_students[j].completion_rate))
        bands == {bandOf(j) : j \in 1..Len(valid_students)}
    IN  [b \in bands |->
            Cardinality({j \in 1..Len(valid_students) : bandOf(j) = b})]

\* calculate_class_stats without the early return for no valid student,
\* the counts taken from the whole students list
calculate_class_stats_unguarded(sheet_data) ==
    LET students == sheet_data.students
        sorted_students == SortedByRate(students, 1, <<>>)
    IN  [total_students |-> Len(students),
         valid_students |-> Len(students),
         average_completion |->
             IF students = <<>> THEN 0
             ELSE RoundMean([j \in 1..Len(students) |->
                               students[j].completion_rate]),
         band_distribution |-> ClassBandDistribution(students),
         top_performers |-> Cap(TopPerformers(sorted_students)),
         needs_attention |-> Cap(NeedsAttention(sorted_students))]

calculate_class_stats(sheet_data) ==
    LET students == sheet_data.students
        valid_students == ValidStudents(sheet_data)
        sorted_students == SortedByRate(valid_students, 1, <<>>)
    IN  IF valid_students = <<>>
        THEN [total_students |-> Len(students),
              valid_students |-> 0,
              average_completion |-> 0,
              band_distribution |-> <<>>,
              top_performers |-> <<>>,
              needs_attention |-> <<>>]
        ELSE [total_students |-> Len(students),
              valid_students |-> Len(valid_students),
              average_completion |-> average_completion(sheet_data),
              band_distribution |-> ClassBandDistribution(valid_students),
              top_performers |-> Cap(TopPerformers(sorted_students)),
              needs_attention |-> Cap(NeedsAttention(sorted_students))]

\* all_completion_rates: one rate per has_due=True record, sheet by sheet
RECURSIVE AllCompletionRates(_, _)
AllCompletionRates(data, i) ==
    IF i > Len(data) THEN <<>>
    ELSE LET valid == ValidStudents(data[i]) IN
         [j \in 1..Len(valid) |-> valid[j].completion_rate]
         \o AllCompletionRates(data, i + 1)

RECURSIVE SubjectAverages(_, _)
SubjectAverages(data, i) ==
    IF i > Len(data) THEN <<>>
    ELSE (IF ValidStudents(data[i]) = <<>> THEN <<>>
          ELSE <<[subject |-> data[i].sheet_name,
                  average |-> average_completion(data[i])]>>)
         \o SubjectAverages(data, i + 1)

\* band_counts built from per-sheet records instead of per-student overall
\* stats (every student counted once per subject)
BandCountsPerRecord(data) ==
    LET refs == ValidRefs(data)
        bandOf(ij) == get_band(Some(data[ij[1]].students[ij[2]].completion_rate))
        bands == {bandOf(ij) : ij \in refs}
    IN  [b \in bands |-> Cardinality({ij \in refs : bandOf(ij) = b})]

\* band_counts of calculate_weekly_kpis
BandCounts(data) ==
    LET stats == calculate_student_overall_stats(data)
        counted == {name \in DOMAIN stats : stats[name].overall_band # "N/A"}
        bands == {stats[name].overall_band : name \in counted}
    IN  [b \in bands |->
            Cardinality({name \in counted : stats[name].overall_band = b})]

Take(q, n) == SubSeq(q, 1, IF Len(q) < n THEN Len(q) ELSE n)
TakeLast(q, n) == SubSeq(q, IF Len(q) < n THEN 1 ELSE Len(q) - n + 1, Len(q))

calculate_weekly_kpis(data) ==
    LET all_completion_rates == AllCompletionRates(data, 1)
        sorted_subjects == SortedDesc(SubjectAverages(data, 1), 1, <<>>)
    IN  [total_students |-> Cardinality(ValidNames(data)),
         total_assessments |-> Len(all_completion_rates),
         school_completion_avg |->
             IF all_completion_rates = <<>> THEN 0
             ELSE RoundMean(all_completion_rates),
         band_distribution |-> BandCounts(data),
         top_subjects |-> Take(sorted_subjects, 5),
         bottom_subjects |-> TakeLast(sorted_subjects, 5)]

(***************************************************************************)
(* Uploaded workbooks                                                      *)
(***************************************************************************)
\* assessment columns of a sheet of the single-student family
MaxCols == 2
\* due dates are the days 1..MaxDate
MaxDate == 3
\* the cutoff day of the run
Today == 2
\* sheets of a workbook of the multi-sheet family
MaxSheets == 2

Dates == 1..MaxDate
OptDates == {None} \cup {Some(d) : d \in Dates}

\* cell values of an assessment column: empty, placeholders, the status
\* sentinels, a score in range, a score out of range, free text
CellValues ==
    {NaN, Str("-"), Str("M"), Str("m"), Str("I"), Str("AB"), Str("X"),
     Num("75", 75), Num("150", 150), Str("abc")}

\* one value of each class the counting code tells apart
CoreValues == {NaN, Str("M"), Str("I"), Num("75", 75)}

DueCells == {NaN} \cup {Date(d) : d \in Dates}

AssessTitle(i) ==
    CASE i = 1 -> "A1" [] i = 2 -> "A2" [] i = 3 -> "A3" [] OTHER -> "A4"

\* a sheet name is held as sheet_name.strip().split(): its tokens in order
SheetTitle(i) ==
    CASE i = 1 -> <<"Math">> [] i = 2 -> <<"Science">> [] i = 3 -> <<"Arabic">>
      [] OTHER -> <<"English">>

Blank(n) == [i \in 1..n |-> NaN]

\* rows of a sheet: titles, categories, due dates, then (labels = 1) the
\* LMS label row, then one row per student
HeaderRow(n) ==
    <<Str("ism al-talib")>> \o Blank(COLUMN_H - 1)
        \o [i \in 1..n |-> Str(AssessTitle(i))]
DueRow(dues) == Blank(COLUMN_H) \o dues
LabelRow(n) ==
    <<Str("Students"), Str("M"), Str("I"), Str("AB"), Str("X"), Str("Overall"),
      Str("-")>> \o Blank(n)
StudentRow(name, cells) == <<Str(name)>> \o Blank(COLUMN_H - 1) \o cells

Grid(labels, dues, names, cells) ==
    <<HeaderRow(Len(dues)), Blank(COLUMN_H + Len(dues)), DueRow(dues)>>
        \o (IF labels = 1 THEN <<LabelRow(Len(dues))>> ELSE <<>>)
        \o [r \in 1..Len(names) |-> StudentRow(names[r], cells[r])]

\* one sheet, one student, MaxCols assessment columns, every cell value
DeepWorkbooks ==
    {<<[sheet_name |-> SheetTitle(1),
        read_raises |-> FALSE,
        df |-> Grid(labels, dues, <<"A">>, <<cells>>)]>> :
        labels \in {0, 1},
        dues \in [1..MaxCols -> DueCells],
        cells \in [1..MaxCols -> CellValues]}

\* the student rows of a sheet of the multi-sheet family
RowNames == {<<"A">>, <<"A", "B">>}

WideSheets(i, labels) ==
    UNION {{[sheet_name |-> SheetTitle(i),
             read_raises |-> FALSE,
             df |-> Grid(labels, <<Date(due)>>, names,
                         [r \in 1..Len(names) |-> <<cells[r]>>])] :
               cells \in [1..Len(names) -> CoreValues]} :
           due \in {1, MaxDate}, names \in RowNames}

\* 1..MaxSheets sheets of one assessment column, one or two students each
RECURSIVE WideWorkbooksOf(_, _)
WideWorkbooksOf(n, labels) ==
    IF n = 0 THEN {<<>>}
    ELSE {Append(wb, sh) : wb \in WideWorkbooksOf(n - 1, labels),
                           sh \in WideSheets(n, labels)}

WideWorkbooks ==
    UNION {WideWorkbooksOf(n, labels) : n \in 1..MaxSheets, labels \in {0, 1}}

\* assessment columns of a sheet of the header family
MaxHeaderCols == 3

\* headers of the first two columns, of columns F and G, and of an
\* assessment column
NameHeads == {Str("ID"), Str("ism al-talib"), Str("Student Name")}
ColumnFHeads == {NaN, Str("Overall"), Str("al-majmu")}
ColumnGHeads == {NaN, Str("overall"), Str("ijmali")}
AdminHeads ==
    {NaN, Str("Overall"), Str("OVERALL"), Str("Notes"), Str("Unnamed: 5"),
     Str("mulahazat"), Str("ijmali"), Str("al-majmu")}

\* a sheet with the header row heads, every assessment column due on day 1,
\* and two students: "A" (column 0) or "B" (column 1) with a score in every
\* assessment cell, "C" or "D" with M in every assessment cell
HeaderSheet(heads) ==
    LET n == Len(heads) - COLUMN_H IN
    [sheet_name |-> SheetTitle(1),
     read_raises |-> FALSE,
     df |-> <<heads,
              Blank(Len(heads)),
              Blank(COLUMN_H) \o [k \in 1..n |-> Date(1)],
              <<Str("A"), Str("B")>> \o Blank(COLUMN_H - 2)
                  \o [k \in 1..n |-> Num("75", 75)],
              <<Str("C"), Str("D")>> \o Blank(COLUMN_H - 2)
                  \o [k \in 1..n |-> Str("M")]>>]

\* files of an upload set, and sheets of a file
MaxFiles == 2
MaxFileSheets == 2

\* the kinds of sheet of the fault family: sound with a score, sound with M,
\* too few rows, and a sheet whose read raises
SheetKinds == {"score", "missing", "short", "raises"}

\* sheet number i of kind kind: one student, one column due on day 1, with
\* the label row of the LMS export; a short sheet keeps its first three rows
FaultSheet(i, kind) ==
    LET grid == Grid(1, <<Date(1)>>, <<"A">>,
                     <<<<IF kind = "missing" THEN Str("M") ELSE Num("75", 75)>>>>)
    IN  [sheet_name |-> SheetTitle(i),
         read_raises |-> kind = "raises",
         df |-> IF kind = "short" THEN SubSeq(grid, 1, 3) ELSE grid]

\* the file at position f of the upload set, its sheets numbered on from
\* those of the files before it
UploadedFile(f, unreadable, kinds) ==
    [unreadable |-> unreadable,
     sheets |-> [k \in 1..Len(kinds) |->
                    FaultSheet((f - 1) * MaxFileSheets + k, kinds[k])]]

SheetLists == UNION {[1..n -> SheetKinds] : n \in 1..MaxFileSheets}

\* sheet names of the LMS export: a subject of one or two words, a grade
\* with a leading zero or above 9, a one-digit section
Subjects == {<<"Math">>, <<"Islamic", "Studies">>}
GradeTokens == {"03", "04", "10", "12"}
SectionTokens == {"0", "1", "2", "9"}

\* the three orders of the tokens: 'S G s', 'S s G', 'G S s'
TokenOrders == {"SGs", "SsG", "GSs"}
Arrange(order, S, G, sec) ==
    CASE order = "SGs" -> S \o <<G, sec>>
      [] order = "SsG" -> S \o <<sec, G>>
      [] order = "GSs" -> <<G>> \o S \o <<sec>>

\* the first cells of the rows under the due-date row: with and without the
\* label row of the export, with blank names among the students
NameRows ==
    {<<Str("Students"), Str("A")>>, <<Str("A")>>, <<Str("A"), Str("B")>>,
     <<Str("Students")>>, <<Str("Students"), Str(" "), Str("B")>>,
     <<Str("Students"), NaN, Str("A"), Str("B")>>}

\* a sheet of the LMS export under the name parts: columns due on day 1, on
\* the cutoff day and after it, the rows of names each with the same cells
NamedSheet(parts, names, cells) ==
    [sheet_name |-> parts,
     read_raises |-> FALSE,
     df |-> <<HeaderRow(3), Blank(COLUMN_H + 3),
              DueRow(<<Date(1), Date(Today), Date(MaxDate)>>)>>
            \o [r \in 1..Len(names) |->
                   <<names[r]>> \o Blank(COLUMN_H - 1) \o cells]]

\* student rows of a class sheet of the many-student family
MaxStudents == 11

StudentName(r) ==
    <<"S01", "S02", "S03", "S04", "S05", "S06", "S07", "S08", "S09", "S10",
      "S11", "S12", "S13", "S14">>[r]

\* student rows of a sheet of the three-column family
MaxThirds == 4

\* a row of three assessment cells of which the first c hold a score
ThreeCells(c) == [k \in 1..3 |-> IF k <= c THEN Num("75", 75) ELSE Str("M")]

\* a class of n students over three columns due on day 1, row r with
\* done[r] cells done (rates 0, 33.33, 66.67, 100)
ThreeColumnSheet(n, done) ==
    [sheet_name |-> SheetTitle(1),
     read_raises |-> FALSE,
     df |-> Grid(0, [k \in 1..3 |-> Date(1)],
                 [r \in 1..n |-> StudentName(r)],
                 [r \in 1..n |-> ThreeCells(done[r])])]

\* the cells of a row over two assessment columns: both done, one done,
\* none done, both marked incomplete
RowKinds ==
    {<<Num("75", 75), Num("75", 75)>>, <<Num("75", 75), Str("M")>>,
     <<Str("M"), Str("M")>>, <<Str("I"), Str("I")>>}

\* a class of MaxStudents students over two columns due on day 1 and on the
\* cutoff day
ManyStudentSheet(cells) ==
    [sheet_name |-> SheetTitle(1),
     read_raises |-> FALSE,
     df |-> Grid(0, <<Date(1), Date(Today)>>,
                 [r \in 1..MaxStudents |-> StudentName(r)], cells)]

\* a row of ten assessment cells of which the first c hold a score
TenCells(c) == [k \in 1..10 |-> IF k <= c THEN Num("75", 75) ELSE Str("M")]

\* a class of one to three students over ten columns due on day 1, with
\* 10, 9, 6, 5 or 0 cells done (rates 100, 90, 60, 50, 0)
TenColumnSheets ==
    UNION {{[sheet_name |-> SheetTitle(1),
             read_raises |-> FALSE,
             df |-> Grid(0, [k \in 1..10 |-> Date(1)],
                         [r \in 1..n |-> StudentName(r)],
                         [r \in 1..n |-> TenCells(done[r])])] :
               done \in [1..n -> {10, 9, 6, 5, 0}]} :
           n \in 1..3}

\* the class sheet is drawn with its rows of two kinds, or from the
\* ten-column sheets
InitClass ==
    /\ pc = "uploaded"
    /\ \/ \E k1 \in RowKinds, k2 \in RowKinds :
             \E cells \in [1..MaxStudents -> {k1, k2}] :
                workbook = <<ManyStudentSheet(cells)>>
       \/ \E sh \in TenColumnSheets : workbook = <<sh>>
    /\ uploaded_files = <<>>
    /\ parser = "none"
    /\ today = Today
    /\ start_date = None
    /\ all_data = <<>>
    /\ flt = <<>>
    /\ filtered_data = <<>>
    /\ student_stats = <<>>
    /\ kpis = <<>>
    /\ sheet_idx = 0
    /\ class_stats = <<>>
    /\ name_column = None
    /\ start_column = None
    /\ rate = None
    /\ band = NotCalled
    /\ rec_band = NotCalled
    /\ tier = NotCalled

Init ==
    /\ pc = "uploaded"
    /\ \/ workbook \in DeepWorkbooks \cup WideWorkbooks
       \/ \E n \in 1..MaxThirds : \E done \in [1..n -> 0..3] :
             workbook = <<ThreeColumnSheet(n, done)>>
    /\ uploaded_files = <<>>
    /\ parser = "none"
    /\ today = Today
    /\ start_date = None
    /\ all_data = <<>>
    /\ flt = <<>>
    /\ filtered_data = <<>>
    /\ student_stats = <<>>
    /\ kpis = <<>>
    /\ sheet_idx = 0
    /\ class_stats = <<>>
    /\ name_column = None
    /\ start_column = None
    /\ rate = None
    /\ band = NotCalled
    /\ rec_band = NotCalled
    /\ tier = NotCalled

ParseExcelFile ==
    /\ pc = "uploaded"
    /\ all_data' = parse_excel_file(workbook, 1, today)
    /\ parser' = "excel"
    /\ pc' = "ingested"
    /\ UNCHANGED <<uploaded_files, workbook, today, start_date, flt, filtered_data, student_stats, kpis>>
    /\ UNCHANGED <<classVars, columnVars>>
    /\ UNCHANGED bandVars

ParseLmsExcel ==
    /\ pc = "uploaded"
    /\ \E start \in OptDates :
          /\ start_date' = start
          /\ all_data' = parse_lms_excel(workbook, 1, today, start)
    /\ parser' = "lms"
    /\ pc' = "ingested"
    /\ UNCHANGED <<uploaded_files, workbook, today, flt, filtered_data, student_stats, kpis>>
    /\ UNCHANGED <<classVars, columnVars>>
    /\ UNCHANGED bandVars

FilterByDateRange ==
    /\ pc = "ingested"
    /\ \E start \in OptDates, end \in OptDates :
          /\ flt' = <<start, end>>
          /\ IF FilterRaises(all_data, start, end)
             THEN pc' = "raised" /\ filtered_data' = <<>>
             ELSE /\ pc' = "filtered"
                  /\ filtered_data' = filter_by_date_range(all_data, start, end)
    /\ UNCHANGED <<uploaded_files, workbook, parser, today, start_date, all_data, student_stats, kpis>>
    /\ UNCHANGED <<classVars, columnVars>>
    /\ UNCHANGED bandVars

\* the batch handed to the rollup: the ingested list, or the filtered one
Batch == IF Len(flt) > 0 THEN filtered_data ELSE all_data

CalculateStudentOverallStats ==
    /\ pc \in {"ingested", "filtered"}
    /\ student_stats' = calculate_student_overall_stats(Batch)
    /\ pc' = "overall"
    /\ UNCHANGED <<uploaded_files, workbook, parser, today, start_date, all_data, flt,
                   filtered_data, kpis>>
    /\ UNCHANGED <<classVars, columnVars>>
    /\ UNCHANGED bandVars

CalculateWeeklyKpis ==
    /\ pc \in {"ingested", "filtered"}
    /\ kpis' = calculate_weekly_kpis(Batch)
    /\ pc' = "kpis"
    /\ UNCHANGED <<uploaded_files, workbook, parser, today, start_date, all_data, flt, filtered_data,
                   student_stats>>
    /\ UNCHANGED <<classVars, columnVars>>
    /\ UNCHANGED bandVars

\* calculate_class_stats ordering the students list of the sheet itself
\* (students.sort) instead of a sorted copy
CalculateClassStatsInPlace ==
    /\ pc \in {"ingested", "filtered"}
    /\ \E i \in 1..Len(Batch) :
          LET ordered == [Batch EXCEPT ![i].students = SortedByRate(@, 1, <<>>)] IN
          /\ sheet_idx' = i
          /\ class_stats' = calculate_class_stats(Batch[i])
          /\ IF Len(flt) > 0
             THEN filtered_data' = ordered /\ all_data' = all_data
             ELSE all_data' = ordered /\ filtered_data' = filtered_data
    /\ pc' = "class"
    /\ UNCHANGED <<uploaded_files, workbook, parser, today, start_date, flt, student_stats, kpis>>
    /\ UNCHANGED columnVars
    /\ UNCHANGED bandVars

CalculateClassStats ==
    /\ pc \in {"ingested", "filtered"}
    /\ \E i \in 1..Len(Batch) :
          /\ sheet_idx' = i
          /\ class_stats' = calculate_class_stats(Batch[i])
    /\ pc' = "class"
    /\ UNCHANGED <<uploaded_files, workbook, parser, today, start_date, all_data, flt, filtered_data,
                   student_stats, kpis>>
    /\ UNCHANGED columnVars
    /\ UNCHANGED bandVars

Next ==
    \/ ParseExcelFile
    \/ ParseLmsExcel
    \/ FilterByDateRange
    \/ CalculateStudentOverallStats
    \/ CalculateWeeklyKpis
    \/ CalculateClassStats

Spec == Init /\ [][Next]_vars

\* find_student_name_column and find_assessment_start_column called on the
\* first sheet of the workbook
FindStudentNameColumn ==
    /\ pc = "uploaded"
    /\ name_column' = Some(find_student_name_column(workbook[1].df))
    /\ pc' = "located"
    /\ UNCHANGED <<uploaded_files, workbook, parser, today, start_date, all_data, flt,
                   filtered_data, student_stats, kpis, classVars, start_column>>
    /\ UNCHANGED bandVars

FindAssessmentStartColumn ==
    /\ pc = "uploaded"
    /\ start_column' = Some(find_assessment_start_column(workbook[1].df))
    /\ pc' = "located"
    /\ UNCHANGED <<uploaded_files, workbook, parser, today, start_date, all_data, flt,
                   filtered_data, student_stats, kpis, classVars, name_column>>
    /\ UNCHANGED bandVars

\* the sheet is drawn with its header row: two leading columns, three blank
\* ones, columns F and G, then MaxHeaderCols assessment columns each under
\* its title or under an administrative header
InitColumns ==
    /\ pc = "uploaded"
    /\ \E c0 \in NameHeads, c1 \in NameHeads, f \in ColumnFHeads, g \in ColumnGHeads :
          \E admin \in [1..MaxHeaderCols -> AdminHeads \cup {Str("title")}] :
             workbook =
                <<HeaderSheet(<<c0, c1>> \o Blank(3) \o <<f, g>>
                    \o [k \in 1..MaxHeaderCols |->
                           IF admin[k] = Str("title") THEN Str(AssessTitle(k))
                           ELSE admin[k]])>>
    /\ uploaded_files = <<>>
    /\ parser = "none"
    /\ today = Today
    /\ start_date = None
    /\ all_data = <<>>
    /\ flt = <<>>
    /\ filtered_data = <<>>
    /\ student_stats = <<>>
    /\ kpis = <<>>
    /\ sheet_idx = 0
    /\ class_stats = <<>>
    /\ name_column = None
    /\ start_column = None
    /\ rate = None
    /\ band = NotCalled
    /\ rec_band = NotCalled
    /\ tier = NotCalled

NextColumns ==
    \/ FindStudentNameColumn
    \/ FindAssessmentStartColumn
    \/ ParseExcelFile
    \/ ParseLmsExcel

SpecColumns == InitColumns /\ [][NextColumns]_vars

AggregateMultipleFiles ==
    /\ pc = "uploaded"
    /\ all_data' = aggregate_multiple_files(uploaded_files, 1, today)
    /\ parser' = "excel"
    /\ pc' = "ingested"
    /\ UNCHANGED <<uploaded_files, workbook, today, start_date, flt,
                   filtered_data, student_stats, kpis>>
    /\ UNCHANGED <<classVars, columnVars>>
    /\ UNCHANGED bandVars

\* today' is the cutoff the files were parsed with (end_date when given)
AggregateLmsFiles ==
    /\ pc = "uploaded"
    /\ \E start \in OptDates, end \in OptDates :
          /\ start_date' = start
          /\ today' = IF ~IsNone(end) THEN Get(end) ELSE today
          /\ all_data' = aggregate_lms_files(uploaded_files, today, start, end)
    /\ parser' = "lms"
    /\ pc' = "ingested"
    /\ UNCHANGED <<uploaded_files, workbook, flt, filtered_data,
                   student_stats, kpis>>
    /\ UNCHANGED <<classVars, columnVars>>
    /\ UNCHANGED bandVars

\* an upload set of 1..MaxFiles files, each readable or not, each of
\* 1..MaxFileSheets sheets of any kind
InitFiles ==
    /\ pc = "uploaded"
    /\ \E n \in 1..MaxFiles :
          \E unreadable \in [1..n -> BOOLEAN], kinds \in [1..n -> SheetLists] :
             uploaded_files =
                [f \in 1..n |-> UploadedFile(f, unreadable[f], kinds[f])]
    /\ workbook = <<>>
    /\ parser = "none"
    /\ today = Today
    /\ start_date = None
    /\ all_data = <<>>
    /\ flt = <<>>
    /\ filtered_data = <<>>
    /\ student_stats = <<>>
    /\ kpis = <<>>
    /\ sheet_idx = 0
    /\ class_stats = <<>>
    /\ name_column = None
    /\ start_column = None
    /\ rate = None
    /\ band = NotCalled
    /\ rec_band = NotCalled
    /\ tier = NotCalled

NextFiles ==
    \/ AggregateMultipleFiles
    \/ AggregateLmsFiles

SpecFiles == InitFiles /\ [][NextFiles]_vars

\* a workbook of one sheet under each name of the three orders
InitNames ==
    /\ pc = "uploaded"
    /\ uploaded_files = <<>>
    /\ \E order \in TokenOrders, S \in Subjects, G \in GradeTokens,
          sec \in SectionTokens :
          \E names \in NameRows, cells \in [1..3 -> {Num("75", 75), Str("M")}] :
             workbook = <<NamedSheet(Arrange(order, S, G, sec), names, cells)>>
    /\ parser = "none"
    /\ today = Today
    /\ start_date = None
    /\ all_data = <<>>
    /\ flt = <<>>
    /\ filtered_data = <<>>
    /\ student_stats = <<>>
    /\ kpis = <<>>
    /\ sheet_idx = 0
    /\ class_stats = <<>>
    /\ name_column = None
    /\ start_column = None
    /\ rate = None
    /\ band = NotCalled
    /\ rec_band = NotCalled
    /\ tier = NotCalled

NextNames == ParseLmsExcel

SpecNames == InitNames /\ [][NextNames]_vars

NextClass ==
    \/ ParseExcelFile
    \/ FilterByDateRange
    \/ CalculateClassStats

SpecClass == InitClass /\ [][NextClass]_vars

NoIngest ==
    /\ workbook = <<>>
    /\ uploaded_files = <<>>
    /\ parser = "none"
    /\ today = 0
    /\ start_date = None
    /\ all_data = <<>>
    /\ flt = <<>>
    /\ filtered_data = <<>>
    /\ student_stats = <<>>
    /\ kpis = <<>>
    /\ sheet_idx = 0
    /\ class_stats = <<>>
    /\ name_column = None
    /\ start_column = None

InitBand ==
    /\ pc = "band"
    /\ NoIngest
    /\ rate \in {None} \cup {Some(r) : r \in Rates}
    /\ band = NotCalled
    /\ rec_band = NotCalled
    /\ tier = NotCalled

GetBand ==
    /\ pc = "band"
    /\ band = NotCalled
    /\ band' = get_band(rate)
    /\ UNCHANGED <<pc, rate, rec_band, tier>>
    /\ UNCHANGED ingestVars

GetBandFromPercentage ==
    /\ pc = "band"
    /\ rec_band = NotCalled
    /\ rec_band' = get_band_from_percentage(rate)
    /\ UNCHANGED <<pc, rate, band, tier>>
    /\ UNCHANGED ingestVars

GetTier ==
    /\ pc = "band"
    /\ tier = NotCalled
    /\ tier' = get_tier(rate)
    /\ UNCHANGED <<pc, rate, band, rec_band>>
    /\ UNCHANGED ingestVars

NextBand == GetBand \/ GetBandFromPercentage \/ GetTier

SpecBand == InitBand /\ [][NextBand]_vars

(***************************************************************************)
(* Properties                                                              *)
(***************************************************************************)
\* every student record of a list of sheet dicts
Records(data) ==
    {data[i].students[j] : <<i, j>> \in
        {ij \in (1..Len(data)) \X (1..MaxRowsOf(data)) :
            ij[2] <= Len(data[ij[1]].students)}}

\* the records the ingestion pass and the date filter have produced so far
Produced == Records(all_data) \cup Records(filtered_data)

\* the sheet of the workbook a sheet dict was parsed from
SheetOf(sheet_data) ==
    CHOOSE i \in 1..Len(workbook) : workbook[i].sheet_name = sheet_data.sheet_name

\* C1: every record produced by parse_excel_file, parse_lms_excel or
\* filter_by_date_range with has_due true has
\* completed + not_submitted = total_due
C1_CountsPartitionDue ==
    \A rec \in Produced :
        rec.has_due => rec.completed + rec.not_submitted = rec.total_due

\* the 0-based indices of the columns from H on that have a title and whose
\* due date is on or before the cutoff
EligibleColumns(df) ==
    {c \in COLUMN_H..(NColumns(df) - 1) :
        /\ ~isna(iloc(df, 0, c))
        /\ ~IsNone(parse_due_date(iloc(df, 2, c)))
        /\ Get(parse_due_date(iloc(df, 2, c))) <= today}

CellText(df, r, c) == Upper(Strip(iloc(df, r, c).s))

\* C2: parse_excel_file drops the I/AB/X cells of a student from the
\* student's denominator: total_due = |E| - #(I/AB/X), not_submitted =
\* #M + #blank, completed = #others, over the eligible columns E
C2_ExcludedCellsLeaveDenominator ==
    parser = "excel" =>
        \A i \in 1..Len(all_data) :
            \A j \in 1..Len(all_data[i].students) :
                LET df == workbook[SheetOf(all_data[i])].df
                    r == 2 + j
                    rec == all_data[i].students[j]
                    E == EligibleColumns(df)
                    blank == {c \in E : isna(iloc(df, r, c))}
                    excluded == {c \in E \ blank : CellText(df, r, c) \in {"I", "AB", "X"}}
                    missing == {c \in E \ blank : CellText(df, r, c) = "M"}
                IN  /\ rec.total_due = Cardinality(E) - Cardinality(excluded)
                    /\ rec.not_submitted = Cardinality(missing) + Cardinality(blank)
                    /\ rec.completed =
                          Cardinality(E \ (blank \cup excluded \cup missing))

\* the assessment_columns list the pass that produced all_data built for a sheet
ParsedColumns(df) ==
    IF parser = "excel"
    THEN ExcelAssessmentColumns(df, find_assessment_start_column(df))
    ELSE LmsAssessmentColumns(df, COLUMN_H)

\* the due dates of the columns that satisfy the eligibility rule as stated:
\* parsed to a date d, d <= cutoff, and d >= start when parse_lms_excel was
\* given a start
EligibleDues(df) ==
    LET cols == ParsedColumns(df) IN
    [k \in {k \in 1..Len(cols) :
                /\ ~IsNone(cols[k].due_date)
                /\ Get(cols[k].due_date) <= today
                /\ (parser = "lms" /\ ~IsNone(start_date)
                       => Get(cols[k].due_date) >= Get(start_date))}
       |-> Get(cols[k].due_date)]

AllDueLater(df) ==
    \A c \in COLUMN_H..(NColumns(df) - 1) :
        iloc(df, 2, c).k = "date" /\ iloc(df, 2, c).n > today

\* C4: in every produced record has_due is true exactly when total_due > 0,
\* and a record with has_due false has completion_rate 0.0; a sheet whose due
\* dates are all after the cutoff yields has_due false, total_due 0, rate 0.0
C4_HasDueIffTotalDue ==
    /\ \A rec \in Produced :
          /\ rec.has_due <=> rec.total_due > 0
          /\ ~rec.has_due => rec.completion_rate = 0
    /\ \A i \in 1..Len(all_data) :
          AllDueLater(workbook[SheetOf(all_data[i])].df) =>
              \A j \in 1..Len(all_data[i].students) :
                  LET rec == all_data[i].students[j] IN
                  ~rec.has_due /\ rec.total_due = 0 /\ rec.completion_rate = 0

\* a sheet with every due date after the cutoff was ingested into records
\* with no due assessment, and the date filter recounted another record of
\* the batch down to no due assessment
C4_Witness ==
    /\ pc = "filtered"
    /\ \E i \in 1..Len(all_data) :
          /\ AllDueLater(workbook[SheetOf(all_data[i])].df)
          /\ \E j \in 1..Len(all_data[i].students) :
                ~all_data[i].students[j].has_due
    /\ \E i \in 1..Len(all_data) : \E j \in 1..Len(all_data[i].students) :
          /\ all_data[i].students[j].has_due
          /\ ~filtered_data[i].students[j].has_due
          /\ filtered_data[i].students[j].completion_rate = 0

\* C5: every produced record has total_due >= 0, not_submitted >= 0 and
\* 0 <= completed <= total_due, so its rate is within [0,100]; every
\* overall_completion_rate of calculate_student_overall_stats is within [0,100]
C5_CountsAndRatesInRange ==
    /\ \A rec \in Produced :
          /\ rec.total_due >= 0
          /\ rec.not_submitted >= 0
          /\ 0 <= rec.completed
          /\ rec.completed <= rec.total_due
          /\ 0 <= rec.completion_rate
          /\ rec.completion_rate <= FullRate
    /\ pc = "overall" =>
          \A name \in DOMAIN student_stats :
              /\ 0 <= student_stats[name].overall_completion_rate
              /\ student_stats[name].overall_completion_rate <= FullRate
              /\ student_stats[name].total_completed <= student_stats[name].total_due

\* the date filter dropped an I/AB/X cell from a record's denominator and the
\* overall statistics of a student with two subjects were computed from it
C5_Witness ==
    /\ pc = "overall"
    /\ Len(flt) > 0
    /\ \E i \in 1..Len(all_data) : \E j \in 1..Len(all_data[i].students) :
          filtered_data[i].students[j].total_due < all_data[i].students[j].total_due
    /\ \E name \in DOMAIN student_stats :
          /\ Len(student_stats[name].subjects) = 2
          /\ student_stats[name].overall_completion_rate = 5000

\* the whole-percent lower bounds of the tiers in get_band's table
BandThresholds == {9000, 8000, 7000, 5000, 100}

\* C6: get_band returns one of the six BAND_LABELS for every rate in
\* [0,100] and 'N/A', which is no band label, for None; the tier never gets
\* lower as the rate grows, and it steps up exactly at a threshold, which
\* belongs to the higher tier
C6_BandTotalAndMonotone ==
    band # NotCalled =>
        IF IsNone(rate)
        THEN band = "N/A" /\ ~InBandLabels(band)
        ELSE /\ InBandLabels(band)
             /\ Ordinal(band) \in 1..6
             /\ Get(rate) > 0 =>
                   LET below == Ordinal(get_band(Some(Get(rate) - 1))) IN
                   /\ Ordinal(band) <= below
                   /\ (Get(rate) \in BandThresholds <=> Ordinal(band) = below - 1)
                   /\ (Get(rate) \notin BandThresholds => Ordinal(band) = below)

\* get_band classified the rate 80.00, a threshold, into the tier it opens
C6_Witness ==
    rate = Some(8000) /\ band = "Gold"

\* C7: every rate above 0 gets a tier different from the tier of rate 0
C7_ZeroHasOwnTier ==
    (band # NotCalled /\ ~IsNone(rate) /\ Get(rate) > 0) =>
        band # get_band(Some(0))

\* C8: get_band puts every rate in the tier the test suite expects
\* (>= 90, >= 75, >= 60, >= 40, > 0, = 0)
C8_TestSuiteBoundaries ==
    (band # NotCalled /\ ~IsNone(rate)) =>
        Ordinal(band) = Ordinal(TestSuiteBand(rate))

\* C9: get_band, get_band_from_percentage and get_tier put every rate in
\* the tier of the same ordinal position
C9_OneThresholdTable ==
    (band # NotCalled /\ rec_band # NotCalled /\ tier # NotCalled /\ ~IsNone(rate)) =>
        /\ Ordinal(band) = Ordinal(rec_band)
        /\ Ordinal(band) = Ordinal(tier)

\* the has_due=True records of one student in a batch, as (sheet, row) pairs
RefsOf(data, name) ==
    {ij \in ValidRefs(data) : data[ij[1]].students[ij[2]].student_name = name}

RECURSIVE SumOver(_, _, _)
SumOver(data, refs, field) ==
    IF refs = {} THEN 0
    ELSE LET ij == CHOOSE x \in refs : TRUE
             st == data[ij[1]].students[ij[2]]
         IN  (IF field = "total_due" THEN st.total_due ELSE st.completed)
             + SumOver(data, refs \ {ij}, field)

\* the band of a student's totals summed over every sheet of the batch
SummedBand(data, name) ==
    get_band(Some(Round2(SumOver(data, RefsOf(data, name), "completed"),
                         SumOver(data, RefsOf(data, name), "total_due"))))

CountOf(dist, b) == IF b \in DOMAIN dist THEN dist[b] ELSE 0

RECURSIVE SumCounts(_, _)
SumCounts(dist, i) ==
    IF i > Len(BAND_LABELS) THEN 0
    ELSE CountOf(dist, BAND_LABELS[i]) + SumCounts(dist, i + 1)

\* C10: the band_distribution of calculate_weekly_kpis counts every student
\* once, in the band of the student's totals summed over all sheets: each
\* count equals the number of calculate_student_overall_stats entries with
\* that overall_band, and the counts add up to the size of that map and to
\* total_students
C10_BandDistributionPerStudent ==
    pc = "kpis" =>
        LET stats == calculate_student_overall_stats(Batch)
            names == ValidNames(Batch)
        IN  /\ DOMAIN kpis.band_distribution \subseteq
                  {BAND_LABELS[i] : i \in 1..Len(BAND_LABELS)}
            /\ \A i \in 1..Len(BAND_LABELS) :
                  /\ CountOf(kpis.band_distribution, BAND_LABELS[i]) =
                        Cardinality({n \in DOMAIN stats :
                                        stats[n].overall_band = BAND_LABELS[i]})
                  /\ CountOf(kpis.band_distribution, BAND_LABELS[i]) =
                        Cardinality({n \in names :
                                        SummedBand(Batch, n) = BAND_LABELS[i]})
            /\ SumCounts(kpis.band_distribution, 1) = Cardinality(DOMAIN stats)
            /\ SumCounts(kpis.band_distribution, 1) = kpis.total_students

\* the KPIs of a batch in which one student has due assessments in two
\* sheets, with different per-sheet bands, and another student in one
C10_Witness ==
    /\ pc = "kpis"
    /\ kpis.total_students = 2
    /\ Len(Batch) = 2
    /\ \E n \in ValidNames(Batch) :
          /\ Cardinality(RefsOf(Batch, n)) = 2
          /\ \E x \in RefsOf(Batch, n), y \in RefsOf(Batch, n) :
                Batch[x[1]].students[x[2]].completion_rate
                    # Batch[y[1]].students[y[2]].completion_rate

\* the names that occur in a batch, with or without a due assessment
NamesIn(data) == {rec.student_name : rec \in Records(data)}

\* rate is 100 * completed / total_due rounded to 2 decimals (in hundredths)
IsRounded(r, completed, total_due) ==
    /\ 2 * (r * total_due - 10000 * completed) <= total_due
    /\ 2 * (10000 * completed - r * total_due) <= total_due

\* C11: calculate_student_overall_stats has exactly the names with at least
\* one has_due=true record in the batch as keys; an entry's total_due and
\* total_completed are the sums over that student's has_due=true records of
\* all sheets, its overall_completion_rate is 100 * total_completed /
\* total_due rounded to 2 decimals and its overall_band is get_band of that
\* rate; a name without a has_due=true record has no entry
C11_OverallStatsPerStudent ==
    pc = "overall" =>
        /\ \A name \in NamesIn(Batch) :
              name \in DOMAIN student_stats <=> RefsOf(Batch, name) # {}
        /\ DOMAIN student_stats \subseteq NamesIn(Batch)
        /\ \A name \in DOMAIN student_stats :
              LET e == student_stats[name]
                  refs == RefsOf(Batch, name)
              IN  /\ e.total_due = SumOver(Batch, refs, "total_due")
                  /\ e.total_completed = SumOver(Batch, refs, "completed")
                  /\ e.total_due > 0
                  /\ IsRounded(e.overall_completion_rate, e.total_completed,
                               e.total_due)
                  /\ e.overall_band = get_band(Some(e.overall_completion_rate))
                  /\ Len(e.subjects) = Cardinality(refs)

\* the overall statistics of a batch of two sheets in which one student has
\* due assessments in both sheets, with different counts of completed ones,
\* and another student of the batch has no due assessment in any sheet
C11_Witness ==
    /\ pc = "overall"
    /\ Len(Batch) = 2
    /\ \E name \in DOMAIN student_stats :
          /\ Cardinality(RefsOf(Batch, name)) = 2
          /\ student_stats[name].total_due = 2
          /\ student_stats[name].total_completed = 1
    /\ \E name \in NamesIn(Batch) : name \notin DOMAIN student_stats

\* a sheet dict without its has_due=false records
DueOnlySheet(sheet_data) ==
    [sheet_data EXCEPT !.students = SelectSeq(@, LAMBDA st : st.has_due)]

\* a sheet dict with the has_due=false record of one more student in front
PaddedSheet(sheet_data) ==
    [sheet_data EXCEPT !.students = <<StudentRecord("Z", ZeroCounts)>> \o @]

DueOnly(data) == [i \in 1..Len(data) |-> DueOnlySheet(data[i])]
Padded(data) == [i \in 1..Len(data) |-> PaddedSheet(data[i])]

SameClassAggregates(a, b) ==
    /\ a.valid_students = b.valid_students
    /\ a.average_completion = b.average_completion
    /\ a.band_distribution = b.band_distribution
    /\ a.top_performers = b.top_performers
    /\ a.needs_attention = b.needs_attention

SameSchoolAggregates(a, b) ==
    /\ a.total_students = b.total_students
    /\ a.school_completion_avg = b.school_completion_avg
    /\ a.band_distribution = b.band_distribution

\* some sheet of the batch holds records with and without a due assessment
MixedSheet(sheet_data) ==
    /\ \E j \in 1..Len(sheet_data.students) : sheet_data.students[j].has_due
    /\ \E j \in 1..Len(sheet_data.students) : ~sheet_data.students[j].has_due

\* C12: has_due=false records take no part in the aggregates: the
\* valid_students, average_completion, band_distribution, top_performers and
\* needs_attention of calculate_class_stats, and the total_students,
\* school_completion_avg and band_distribution of calculate_weekly_kpis, are
\* the same for the batch, for the batch with its has_due=false records
\* removed and for the batch with a has_due=false record added to each sheet
C12_NoDueRecordsTakeNoPart ==
    /\ pc = "class" =>
          /\ SameClassAggregates(class_stats,
                 calculate_class_stats(DueOnlySheet(Batch[sheet_idx])))
          /\ SameClassAggregates(class_stats,
                 calculate_class_stats(PaddedSheet(Batch[sheet_idx])))
    /\ pc = "kpis" =>
          /\ SameSchoolAggregates(kpis, calculate_weekly_kpis(DueOnly(Batch)))
          /\ SameSchoolAggregates(kpis, calculate_weekly_kpis(Padded(Batch)))

\* the class statistics of a sheet that holds a student with due assessments
\* and a student without, in a batch whose other sheet has no due assessment
C12_Witness ==
    /\ pc = "class"
    /\ Len(Batch) = 2
    /\ MixedSheet(Batch[sheet_idx])
    /\ class_stats.valid_students = 1
    /\ class_stats.total_students = 2
    /\ \E i \in 1..Len(Batch) : ValidStudents(Batch[i]) = <<>>

\* the students list calculate_class_stats was given
ClassStudents == Batch[sheet_idx].students

\* the row of a record in a students list (names are unique within a sheet)
RowOf(students, rec) == CHOOSE j \in 1..Len(students) : students[j] = rec

\* row i comes before row j in descending order of rate, ties in row order
RanksAhead(students, i, j) ==
    \/ students[i].completion_rate > students[j].completion_rate
    \/ /\ students[i].completion_rate = students[j].completion_rate
       /\ i < j

\* q lists the rows of Q in descending order of rate with ties in row order,
\* cut after the first 10: the rows left out all rank behind the rows listed
IsLeadingList(q, students, Q) ==
    /\ Len(q) = (IF Cardinality(Q) < LIST_CAP THEN Cardinality(Q) ELSE LIST_CAP)
    /\ \A k \in 1..Len(q) : \E j \in Q : q[k] = students[j]
    /\ \A k \in 1..Len(q) : \A l \in 1..Len(q) :
          k < l => RanksAhead(students, RowOf(students, q[k]), RowOf(students, q[l]))
    /\ \A j \in Q :
          (\A k \in 1..Len(q) : q[k] # students[j]) =>
              \A k \in 1..Len(q) : RanksAhead(students, RowOf(students, q[k]), j)

DueRows(students) == {j \in 1..Len(students) : students[j].has_due}

\* C13 as stated: top_performers holds the min(10, n) highest-rate
\* has_due=true students of the sheet, in descending order of rate with ties
\* in row order, and is non-empty whenever a student has a due assessment
C13_TopPerformersAreHighest ==
    pc = "class" =>
        /\ IsLeadingList(class_stats.top_performers, ClassStudents,
                         DueRows(ClassStudents))
        /\ DueRows(ClassStudents) # {} => class_stats.top_performers # <<>>

TopRows(students) ==
    {j \in DueRows(students) : students[j].completion_rate >= 9000}

\* C13 as amended: top_performers holds the has_due=true students whose
\* rate is at least 90, in descending order of rate with ties in row order,
\* cut after the first 10; it is empty when no student reaches 90
C13_TopPerformersFromNinety ==
    pc = "class" =>
        IsLeadingList(class_stats.top_performers, ClassStudents,
                      TopRows(ClassStudents))

\* the class statistics of a sheet in which more than 10 students reach 90:
\* the list stops at 10
C13_Witness ==
    /\ pc = "class"
    /\ Cardinality(TopRows(ClassStudents)) > LIST_CAP
    /\ Len(class_stats.top_performers) = LIST_CAP

LowRows(students) ==
    {j \in DueRows(students) : students[j].completion_rate < 6000}

\* C14: needs_attention holds only has_due=true students whose rate is
\* below 60, at most 10 of them, in descending order of rate with ties in row
\* order; when more than 10 are below 60 it keeps the 10 highest-rate ones
C14_NeedsAttentionBelowSixty ==
    pc = "class" =>
        /\ IsLeadingList(class_stats.needs_attention, ClassStudents,
                         LowRows(ClassStudents))
        /\ Len(class_stats.needs_attention) <= 10

\* more than 10 students of the sheet are below 60, at two different rates:
\* a student at the lower rate is left out of the list
C14_Witness ==
    /\ pc = "class"
    /\ Cardinality(LowRows(ClassStudents)) > LIST_CAP
    /\ Len(class_stats.needs_attention) = LIST_CAP
    /\ \E j \in LowRows(ClassStudents) :
          /\ \A k \in 1..LIST_CAP :
                class_stats.needs_attention[k] # ClassStudents[j]
          /\ ClassStudents[j].completion_rate
                < class_stats.needs_attention[1].completion_rate

IsEmptyClassStats(cs) ==
    /\ cs.valid_students = 0
    /\ cs.average_completion = 0
    /\ DOMAIN cs.band_distribution = {}
    /\ Len(cs.top_performers) = 0
    /\ Len(cs.needs_attention) = 0

\* C15: on an empty batch calculate_weekly_kpis returns total_students 0,
\* total_assessments 0, school_completion_avg 0.0 and empty
\* band_distribution, top_subjects and bottom_subjects, and
\* calculate_student_overall_stats returns an empty map; on a sheet without
\* a has_due student, and on a sheet without students, calculate_class_stats
\* returns valid_students 0, average_completion 0.0, an empty
\* band_distribution and empty lists
C15_EmptyInputGivesZeroes ==
    /\ (pc = "kpis" /\ Len(Batch) = 0) =>
          /\ kpis.total_students = 0
          /\ kpis.total_assessments = 0
          /\ kpis.school_completion_avg = 0
          /\ DOMAIN kpis.band_distribution = {}
          /\ Len(kpis.top_subjects) = 0
          /\ Len(kpis.bottom_subjects) = 0
    /\ (pc = "overall" /\ Len(Batch) = 0) => DOMAIN student_stats = {}
    /\ (pc = "class" /\ DueRows(ClassStudents) = {}) =>
          /\ IsEmptyClassStats(class_stats)
          /\ class_stats.total_students = Len(ClassStudents)
    /\ LET cs == calculate_class_stats(
                     [sheet_name |-> SheetTitle(1), students |-> <<>>])
       IN  IsEmptyClassStats(cs) /\ cs.total_students = 0

\* the KPIs of a workbook whose only sheet was skipped by the ingestion pass
C15_Witness ==
    /\ pc = "kpis"
    /\ Len(workbook) > 0
    /\ Len(Batch) = 0
    /\ kpis.total_students = 0

\* C16: calculate_student_overall_stats, calculate_class_stats and
\* calculate_weekly_kpis leave the batch as it was (every sheet dict and
\* every student record), and a call on the batch as it is after the call
\* returns the result the call returned
C16_RollupLeavesBatchAlone ==
    /\ [][pc' \in {"overall", "kpis", "class"} =>
             /\ all_data' = all_data
             /\ filtered_data' = filtered_data
             /\ flt' = flt]_vars
    /\ [](/\ pc = "overall" => student_stats = calculate_student_overall_stats(Batch)
          /\ pc = "kpis" => kpis = calculate_weekly_kpis(Batch)
          /\ pc = "class" => class_stats = calculate_class_stats(Batch[sheet_idx]))

\* the class statistics of a sheet whose rows are not in descending order of
\* rate were computed and the sheet still has its rows in the order it had
C16_Witness ==
    /\ pc = "class"
    /\ Len(ClassStudents) = 2
    /\ ClassStudents[1].has_due
    /\ ClassStudents[1].completion_rate < ClassStudents[2].completion_rate
    /\ class_stats.valid_students = 2

\* the orders of n positions
Perms(n) == {p \in [1..n -> 1..n] : \A a, b \in 1..n : a # b => p[a] # p[b]}

\* a sheet dict with its student rows in every order
RowShuffles(sheet_data) ==
    {[sheet_data EXCEPT
        !.students = [j \in 1..Len(sheet_data.students) |->
                         sheet_data.students[p[j]]]] :
        p \in Perms(Len(sheet_data.students))}

RECURSIVE Choices(_)
Choices(sets) ==
    IF sets = <<>> THEN {<<>>}
    ELSE {<<h>> \o t : h \in Head(sets), t \in Choices(Tail(sets))}

\* the batches made of the sheets of a batch in any order, each with its
\* student rows in any order
Shuffles(data) ==
    UNION {Choices([i \in 1..Len(data) |-> RowShuffles(data[p[i]])]) :
              p \in Perms(Len(data))}

\* two results of calculate_student_overall_stats that give every student
\* the same totals, rate and band
SameOverallStats(a, b) ==
    /\ DOMAIN a = DOMAIN b
    /\ \A name \in DOMAIN a :
          /\ a[name].total_due = b[name].total_due
          /\ a[name].total_completed = b[name].total_completed
          /\ a[name].overall_completion_rate = b[name].overall_completion_rate
          /\ a[name].overall_band = b[name].overall_band

\* two results of calculate_weekly_kpis with the same counts
SameKpiCounts(a, b) ==
    /\ a.band_distribution = b.band_distribution
    /\ a.total_students = b.total_students
    /\ a.total_assessments = b.total_assessments

\* C17: putting the sheets of the batch in another order and the student
\* rows of each sheet in another order changes no student's total_due,
\* total_completed, overall_completion_rate or overall_band, and changes
\* neither band_distribution, total_students nor school_completion_avg of
\* the KPIs
C17_OrderIndependent ==
    \A shuffled \in Shuffles(Batch) :
        /\ pc = "overall" =>
              SameOverallStats(student_stats,
                               calculate_student_overall_stats(shuffled))
        /\ pc = "kpis" =>
              /\ SameKpiCounts(kpis, calculate_weekly_kpis(shuffled))
              /\ kpis.school_completion_avg =
                    calculate_weekly_kpis(shuffled).school_completion_avg

\* the part of C17 that does not go through the mean of the rates
C17_CountsOrderIndependent ==
    \A shuffled \in Shuffles(Batch) :
        /\ pc = "overall" =>
              SameOverallStats(student_stats,
                               calculate_student_overall_stats(shuffled))
        /\ pc = "kpis" =>
              SameKpiCounts(kpis, calculate_weekly_kpis(shuffled))

\* the header row of the first sheet, by 0-based column
HeaderAt(c) == iloc(workbook[1].df, 0, c)
ColumnsFrom(c) == c..(NColumns(workbook[1].df) - 1)

Least(S) == CHOOSE x \in S : \A y \in S : x <= y
Greatest(S) == CHOOSE x \in S : \A y \in S : x >= y

\* the columns whose header contains the Arabic or the English name marker
NameMarked ==
    {c \in ColumnsFrom(0) : Markers(HeaderAt(c).s) \cap {"ism", "Student"} # {}}

\* C18: find_student_name_column returns the index of the first column
\* whose header contains the Arabic name marker or the English marker
\* 'Student', and 0 when no header contains either
C18_FirstNameMarkerColumn ==
    name_column # None =>
        Get(name_column) = IF NameMarked = {} THEN 0 ELSE Least(NameMarked)

\* the columns before column H whose header contains an overall marker
OverallBeforeH ==
    {c \in ColumnsFrom(0) :
        /\ c < COLUMN_H
        /\ Markers(HeaderAt(c).s) \cap {"Overall", "overall", "ijmali", "majmu"} # {}}

CountedColumns == {c \in ColumnsFrom(COLUMN_H) : HeaderAt(c) \notin AdminHeads}

\* the counted columns in which the student of row j holds a score, or M
ScoredIn(j) == {c \in CountedColumns : iloc(workbook[1].df, 2 + j, c).k = "num"}
MissingIn(j) == {c \in CountedColumns : iloc(workbook[1].df, 2 + j, c) = Str("M")}

\* C20: in parse_excel_file a column at or after the start index under an
\* administrative header (overall, unnamed, notes, the Arabic markers, blank)
\* adds nothing to any student's total_due, completed or not_submitted
\* although it is due and holds a value; the other columns are all counted
C20_AdministrativeColumnsNotCounted ==
    (pc = "ingested" /\ parser = "excel" /\ all_data # <<>>) =>
        \A j \in 1..Len(all_data[1].students) :
            LET st == all_data[1].students[j] IN
            /\ st.total_due = Cardinality(CountedColumns)
            /\ st.completed = Cardinality(ScoredIn(j))
            /\ st.not_submitted = Cardinality(MissingIn(j))

\* a sheet was ingested whose second assessment column is headed Overall,
\* between two columns under their titles
C20_Witness ==
    /\ pc = "ingested"
    /\ parser = "excel"
    /\ HeaderAt(COLUMN_H) = Str("A1")
    /\ HeaderAt(COLUMN_H + 1) = Str("Overall")
    /\ HeaderAt(COLUMN_H + 2) = Str("A3")
    /\ Len(all_data[1].students) = 2
    /\ all_data[1].students[1].total_due = 2
    /\ all_data[1].students[1].completed = 2
    /\ all_data[1].students[2].not_submitted = 2

\* the sheets of the upload set that can be read and have the rows the
\* parser asks for (min_rows), in upload order
RECURSIVE SoundSheets(_, _, _)
SoundSheets(files, f, min_rows) ==
    IF f > Len(files) THEN <<>>
    ELSE (IF files[f].unreadable THEN <<>>
          ELSE SelectSeq(files[f].sheets,
                         LAMBDA sh : ~sh.read_raises /\ NRows(sh.df) >= min_rows))
         \o SoundSheets(files, f + 1, min_rows)

\* the sheet dict the parser in use returns for a sheet uploaded alone
ParsedAlone(sheet) ==
    IF parser = "excel"
    THEN parse_excel_file(<<sheet>>, 1, today)
    ELSE parse_lms_excel(<<sheet>>, 1, today, start_date)

\* C21: a sheet with too few rows or whose read raises, and a file that
\* cannot be read, contribute nothing, and every other sheet of the upload
\* set is returned, in upload order, as it is parsed when uploaded alone
C21_FaultsIsolated ==
    (pc = "ingested" /\ uploaded_files # <<>>) =>
        LET sound == SoundSheets(uploaded_files, 1,
                                 IF parser = "excel" THEN 4 ELSE 5)
        IN  /\ Len(all_data) = Len(sound)
            /\ \A k \in 1..Len(sound) : <<all_data[k]>> = ParsedAlone(sound[k])

\* the first file could not be read, the first sheet of the second file
\* raised, its second sheet was returned
C21_Witness ==
    /\ pc = "ingested"
    /\ Len(uploaded_files) = 2
    /\ uploaded_files[1].unreadable
    /\ \E k \in 1..Len(uploaded_files[1].sheets) :
          ~uploaded_files[1].sheets[k].read_raises
    /\ ~uploaded_files[2].unreadable
    /\ Len(uploaded_files[2].sheets) = 2
    /\ uploaded_files[2].sheets[1].read_raises
    /\ Len(all_data) = 1
    /\ all_data[1].sheet_name = uploaded_files[2].sheets[2].sheet_name

\* the subject, grade and section the sheet name of the workbook is made of
NameParts ==
    {<<S, G, sec>> \in Subjects \X GradeTokens \X SectionTokens :
        \E order \in TokenOrders : workbook[1].sheet_name = Arrange(order, S, G, sec)}

\* an ingested sheet dict carries the identity of the name 'S G s'
HasIdentityOf(sheet_data, S, G, sec) ==
    LET same == LmsSheetData(Arrange("SGs", S, G, sec), sheet_data.students) IN
    /\ sheet_data.subject = S /\ same.subject = S
    /\ sheet_data.class_name = G /\ same.class_name = G
    /\ sheet_data.section = sec /\ same.section = sec
    /\ sheet_data.class_code = same.class_code
    /\ sheet_data.grade = same.grade

\* C22: the names 'G S s', 'S G s' and 'S s G' made of a subject S, a grade
\* G with a leading zero or above 9 and a one-digit section s yield the same
\* subject, class_name, section, class_code and normalized grade
C22_TokenOrderIrrelevant ==
    (pc = "ingested" /\ parser = "lms" /\ Len(workbook) = 1 /\ all_data # <<>>) =>
        \A t \in NameParts : HasIdentityOf(all_data[1], t[1], t[2], t[3])

\* the same for the sections 1 to 9
C22_TokenOrderIrrelevantFromOne ==
    (pc = "ingested" /\ parser = "lms" /\ Len(workbook) = 1 /\ all_data # <<>>) =>
        \A t \in NameParts : t[3] # "0" => HasIdentityOf(all_data[1], t[1], t[2], t[3])

\* the stored details of a record whose due date lies within the bounds of
\* the filter call, both ends included
DetailsInRange(student) ==
    {a \in 1..Len(student.assessments) :
        /\ IsNone(flt[1]) \/ student.assessments[a].due_date.d >= Get(flt[1])
        /\ IsNone(flt[2]) \/ student.assessments[a].due_date.d <= Get(flt[2])}

\* what a stored value counts as: "excluded" (I, AB, X), "missing" (M or no
\* value) or "done"
ValueClass(value) ==
    IF isna(value) THEN "missing"
    ELSE IF Upper(Strip(value.s)) \in {"I", "AB", "X"} THEN "excluded"
    ELSE IF Upper(Strip(value.s)) = "M" THEN "missing"
    ELSE "done"

DetailsOfClass(student, class) ==
    {a \in DetailsInRange(student) : ValueClass(student.assessments[a].value) = class}

\* the record new was recounted from the stored details of the record old
IsRecountOf(new, old) ==
    LET missing == Cardinality(DetailsOfClass(old, "missing"))
        done == Cardinality(DetailsOfClass(old, "done"))
    IN  /\ new.total_due = missing + done
        /\ new.not_submitted = missing
        /\ new.completed = done
        /\ new.has_due = (missing + done > 0)
        /\ new.completion_rate =
              IF missing + done > 0 THEN Round2(done, missing + done) ELSE 0

\* C23: filter_by_date_range recounts every student from the stored
\* details: total_due the details due within the bounds (both ends
\* included, no bound when None) other than I/AB/X, not_submitted those
\* with M or no value, completed the rest, the rate from these two and
\* has_due = (total_due > 0)
C23_FilterRecountsFromDetails ==
    pc = "filtered" =>
        \A i \in 1..Len(all_data) : \A j \in 1..Len(all_data[i].students) :
            IsRecountOf(filtered_data[i].students[j], all_data[i].students[j])

\* the same for the students with at least one stored detail
C23_RecountWhereDetailsStored ==
    pc = "filtered" =>
        \A i \in 1..Len(all_data) : \A j \in 1..Len(all_data[i].students) :
            all_data[i].students[j].assessments # <<>> =>
                IsRecountOf(filtered_data[i].students[j], all_data[i].students[j])

\* the records of the batch parse_lms_excel returned
LmsRecords == IF pc = "ingested" /\ parser = "lms" THEN Records(all_data) ELSE {}

\* the eligible cells of a record of parse_lms_excel (each is stored as a
\* detail) that are blank, that hold a status sentinel, that hold anything
\* else
BlankCells(st) ==
    {a \in 1..Len(st.assessments) : Strip(st.assessments[a].value.s) \in {"", "-"}}
SentinelCells(st) ==
    {a \in 1..Len(st.assessments) : Upper(st.assessments[a].value.s) \in SENTINELS}
OtherCells(st) == (1..Len(st.assessments)) \ (BlankCells(st) \cup SentinelCells(st))

\* C24: in parse_lms_excel every eligible blank cell (NaN, empty string or
\* '-') adds one to not_submitted as it does to total_due
C24_LmsBlankIsNotSubmitted ==
    \A st \in LmsRecords :
        /\ st.total_due = Len(st.assessments)
        /\ st.not_submitted =
              Cardinality(BlankCells(st)) + Cardinality(SentinelCells(st))

\* C25: in parse_lms_excel every eligible cell that is neither blank nor
\* one of M/I/AB/X is counted as completed: a number in [0,100], a number
\* outside it, free text
C25_LmsOtherValuesCompleted ==
    \A st \in LmsRecords : st.completed = Cardinality(OtherCells(st))

\* the same with the numbers outside [0,100] and the free text left out
C25_LmsScoresCompleted ==
    \A st \in LmsRecords :
        st.completed =
            Cardinality({a \in OtherCells(st) :
                            st.assessments[a].value.s \notin {"150", "abc"}})

\* the assessment columns of the first sheet under a header that is not
\* blank
TitledColumns == {c \in ColumnsFrom(COLUMN_H) : ~isna(HeaderAt(c))}

\* C26: in parse_lms_excel a column at index 7 or after whose header holds
\* an administrative marker ('Overall', 'Notes', ...) and whose due date is
\* eligible adds nothing to any student's total_due or completed
C26_LmsAdministrativeColumnsNotCounted ==
    (pc = "ingested" /\ parser = "lms" /\ all_data # <<>>) =>
        \A j \in 1..Len(all_data[1].students) :
            LET st == all_data[1].students[j] IN
            (IsNone(start_date) \/ Get(start_date) <= 1) =>
                /\ st.total_due = Cardinality(CountedColumns)
                /\ st.completed <= Cardinality(CountedColumns)

\* what parse_lms_excel leaves out is the columns with a blank header only
C26_LmsBlankHeadersNotCounted ==
    (pc = "ingested" /\ parser = "lms" /\ all_data # <<>>) =>
        \A j \in 1..Len(all_data[1].students) :
            (IsNone(start_date) \/ Get(start_date) <= 1) =>
                all_data[1].students[j].total_due = Cardinality(TitledColumns)

\* the names parse_lms_excel returned for the first sheet, in order
ReturnedNames ==
    IF all_data = <<>> THEN <<>>
    ELSE [j \in 1..Len(all_data[1].students) |-> all_data[1].students[j].student_name]

\* the names, trimmed, of the rows of the first sheet from row index first
\* on that hold a name, in order
RECURSIVE NamesFrom(_, _)
NamesFrom(first, skip) ==
    LET df == workbook[1].df
        name == IF isna(iloc(df, first, 0)) THEN "" ELSE Strip(iloc(df, first, 0).s)
    IN  IF first >= NRows(df) THEN <<>>
        ELSE (IF name \in skip THEN <<>> ELSE <<name>>) \o NamesFrom(first + 1, skip)

LmsIngested == pc = "ingested" /\ parser = "lms" /\ Len(workbook) = 1

SameMetrics(a, b) ==
    /\ a.total_due = b.total_due
    /\ a.completed = b.completed
    /\ a.not_submitted = b.not_submitted
    /\ a.completion_rate = b.completion_rate
    /\ a.has_due = b.has_due

\* C28: filter_by_date_range with start_date=None and end_date=T on the
\* output of parse_excel_file with cutoff T gives every student the
\* total_due, completed, not_submitted, completion_rate and has_due that
\* parse_excel_file computed
C28_FilterAgreesWithIngest ==
    (pc = "filtered" /\ parser = "excel" /\ flt = <<None, Some(today)>>) =>
        \A i \in 1..Len(all_data) : \A j \in 1..Len(all_data[i].students) :
            SameMetrics(filtered_data[i].students[j], all_data[i].students[j])

\* the same for the students whose eligible cells are all scores or M
C28_AgreesOnScoresAndMissing ==
    (pc = "filtered" /\ parser = "excel" /\ flt = <<None, Some(today)>>) =>
        \A i \in 1..Len(all_data) : \A j \in 1..Len(all_data[i].students) :
            LET st == all_data[i].students[j] IN
            (/\ Len(st.assessments) = st.total_due
             /\ \A a \in 1..Len(st.assessments) :
                   Upper(Strip(st.assessments[a].value.s)) \notin {"I", "AB", "X"}) =>
                SameMetrics(filtered_data[i].students[j], st)

\* C29: total_assessments of calculate_weekly_kpis is the number of
\* eligible assessments of the batch: the sum of total_due over the
\* has_due=True records
C29_TotalAssessmentsIsSumOfDue ==
    pc = "kpis" =>
        kpis.total_assessments =
            SumSeq([i \in 1..Len(Batch) |->
                      SumSeq([j \in 1..Len(Batch[i].students) |->
                                IF Batch[i].students[j].has_due
                                THEN Batch[i].students[j].total_due ELSE 0])])

\* total_assessments is the number of has_due=True records
C29_TotalAssessmentsIsRecordCount ==
    pc = "kpis" => kpis.total_assessments = Cardinality(ValidRefs(Batch))

\* the stored detail lists of two batches of the same shape are equal
SameDetails(a, b) ==
    /\ Len(a) = Len(b)
    /\ \A i \in 1..Len(a) :
          /\ Len(a[i].students) = Len(b[i].students)
          /\ \A j \in 1..Len(a[i].students) :
                a[i].students[j].assessments = b[i].students[j].assessments

\* C30: filter_by_date_range is idempotent and non-destructive: a call
\* leaves the input batch as it was; a call that returns gives a batch on
\* which the same call returns the same batch, carries the stored detail
\* list of every student over unmodified, and a later call with any bounds
\* on the result recounts what it recounts on the input
C30_FilterIdempotentNonDestructive ==
    [][(pc = "ingested" /\ pc' \in {"filtered", "raised"}) =>
          /\ all_data' = all_data
          /\ pc' = "filtered" =>
                /\ ~FilterRaises(filtered_data', flt'[1], flt'[2])
                /\ filter_by_date_range(filtered_data', flt'[1], flt'[2]) = filtered_data'
                /\ SameDetails(filtered_data', all_data)
                /\ \A s \in OptDates, e \in OptDates :
                      ~FilterRaises(all_data, s, e) =>
                          filter_by_date_range(filtered_data', s, e)
                              = filter_by_date_range(all_data, s, e)]_vars

\* a filter has narrowed a student's counts and kept both stored details
C30_Witness ==
    /\ pc = "filtered"
    /\ \E i \in 1..Len(all_data) : \E j \in 1..Len(all_data[i].students) :
          /\ all_data[i].students[j].total_due = 2
          /\ filtered_data[i].students[j].total_due = 1
          /\ Len(filtered_data[i].students[j].assessments) = 2

====
